---- MODULE Spec2Model ----
(***************************************************************************)
(* Model of the dashboard core of the pubsub-emulator: the bounded         *)
(* in-memory message store (Dashboard.messages), its RWMutex discipline,   *)
(* the broadcast queue with its fan-out worker, the viewer registry and    *)
(* the HTTP handlers built on them (publish, replay, list, search, export, *)
(* stats), together with the broker the handlers call into.                *)
(***************************************************************************)
EXTENDS Integers, Sequences, FiniteSets, TLC

\* ------------------------------------------------------------------------
\* Bounds of the model
\* ------------------------------------------------------------------------
\* capacity of the store (Dashboard.maxMessages, 1000 in New, 10 in the tests)
maxMessages == 2
\* capacity of the broadcast channel (256 in New)
BroadcastCap == 1
\* number of operations (requests, external publishes, connections) started
\* in one behaviour of each specification
StoreOps == 4
ReplayOps == 2
ReadOps == 3
BroadcastOps == 4
SearchOps == 1
SnapshotOps == 4
HTTPOps == 2
StatsOps == 4
PublisherOps == 2
FanoutOps == 3
WorkerOps == 2
ReadOnlyOps == 3
\* length of the window of recent messages in the statistics (20 in GetStats),
\* scaled with maxMessages so that the store outgrows it
RecentWindow == 1
\* number of message IDs the broker hands out in one behaviour
MaxPublish == 4

\* ------------------------------------------------------------------------
\* Goroutines, configuration and input domains
\* ------------------------------------------------------------------------
\* goroutines serving HTTP requests
Handlers == {"h1"}
\* cfg.TopicIDs and cfg.SubscriptionIDs (main.go), paired by position
TopicIDs == <<"t1", "t2">>
SubscriptionIDs == <<"s1", "s2">>
\* one receiver goroutine per subscription (Subscriber.SubscribeToAll)
Receivers == {SubscriptionIDs[i] : i \in 1..Len(SubscriptionIDs)}
\* goroutines that call Dashboard.GetMessages directly
Callers == {"g1", "g2"}
\* the goroutine running main()
Mains == {"main"}
\* every goroutine that can call into the store
Procs == Handlers \cup Receivers \cup Callers \cup Mains
\* viewer connections (websocket.Conn), each served by HandleWebSocket
Conns == {"c1", "c2"}
\* the goroutine started by New
Worker == "worker"

NoProc == "none"
NoConn == "noconn"

\* strings are sequences of characters; topics only need equality
EmptyStr == <<>>
\* the attributes sent with a payload
AttrsOf(data) == IF data = <<"a">> THEN {} ELSE {<<"k", "v">>}
\* the publish requests the dashboard receives: (topic_id, data)
PublishRequests == {<<"t1", <<"a">>>>, <<"t2", <<"A", "b">>>>, <<"tx", <<"a">>>>,
                    <<"", <<"a">>>>, <<"t1", <<>>>>}
\* what other clients of the broker publish: (topic, data)
ExternalRequests == {<<"t1", <<"A", "b">>>>, <<"t2", <<"a">>>>}

\* ------------------------------------------------------------------------
\* Pure helpers
\* ------------------------------------------------------------------------
Digits == <<"1", "2", "3", "4", "5", "6", "7", "8", "9">>
\* the n-th message ID the broker assigns
BrokerID(n) == <<"m", Digits[n]>>

\* strings.ToLower on one character
ToLowerChar(c) ==
    CASE c = "A" -> "a"
      [] c = "B" -> "b"
      [] c = "M" -> "m"
      [] OTHER -> c

\* strings.ToLower
ToLower(s) == [i \in 1..Len(s) |-> ToLowerChar(s[i])]

\* strings.Contains(s, sub)
Contains(s, sub) ==
    \E i \in 0..(Len(s) - Len(sub)) :
        \A j \in 1..Len(sub) : s[i + j] = sub[j]

\* the last n elements of a sequence: s[len(s)-n:]
LastN(s, n) == IF Len(s) > n THEN SubSeq(s, Len(s) - n + 1, Len(s)) ELSE s

\* the topic a subscription is bound to (setupTopicsAndSubscriptions)
TopicOfSub(sub) ==
    TopicIDs[CHOOSE i \in 1..Len(SubscriptionIDs) : SubscriptionIDs[i] = sub]

\* ------------------------------------------------------------------------
\* Configuration: config.LoadFromEnv and its helpers
\* ------------------------------------------------------------------------
\* index of the first "," of s, 0 when there is none
FirstComma(s) ==
    IF \E i \in 1..Len(s) : s[i] = ","
       THEN CHOOSE i \in 1..Len(s) :
              s[i] = "," /\ \A j \in 1..(i - 1) : s[j] # ","
       ELSE 0

\* strings.Split(s, ",")
RECURSIVE SplitComma(_)
SplitComma(s) ==
    IF FirstComma(s) = 0 THEN <<s>>
    ELSE <<SubSeq(s, 1, FirstComma(s) - 1)>>
         \o SplitComma(SubSeq(s, FirstComma(s) + 1, Len(s)))

RECURSIVE TrimLeft(_)
TrimLeft(s) == IF s # <<>> /\ Head(s) = " " THEN TrimLeft(Tail(s)) ELSE s

RECURSIVE TrimRight(_)
TrimRight(s) ==
    IF s # <<>> /\ s[Len(s)] = " " THEN TrimRight(SubSeq(s, 1, Len(s) - 1)) ELSE s

\* strings.TrimSpace
TrimSpace(s) == TrimRight(TrimLeft(s))

\* parseCommaSeparated: split, trim, drop the empty parts
parseCommaSeparated(s) ==
    IF s = <<>> THEN <<>>
    ELSE LET parts == SplitComma(s)
             trimmed == [i \in 1..Len(parts) |-> TrimSpace(parts[i])]
         IN SelectSeq(trimmed, LAMBDA x : x # <<>>)

\* getEnvOrDefault with the variable's value already read
getEnvOrDefault(value, defaultValue) ==
    IF value # <<>> THEN value ELSE defaultValue

\* Config.MessageToPublish as LoadFromEnv sets it
MessageToPublish == <<"h", "i">>
DefaultPubSubPort == <<"8", "0", "8", "5">>

NoCfg == [ProjectID |-> <<>>, TopicIDs |-> <<>>, SubscriptionIDs |-> <<>>,
          MessageToPublish |-> <<>>, DashboardPort |-> <<>>, PubSubPort |-> <<>>]

\* an environment in which no variable is set
NoEnv == [PUBSUB_PROJECT |-> <<>>, PUBSUB_TOPIC |-> <<>>,
          PUBSUB_SUBSCRIPTION |-> <<>>, DASHBOARD_PORT |-> <<>>,
          PUBSUB_PORT |-> <<>>]

\* a LoadFromEnv that does not compare the two lists' lengths
LoadFromEnvNoCountCheck(env) ==
    IF \/ env.PUBSUB_PROJECT = <<>>
       \/ env.PUBSUB_TOPIC = <<>>
       \/ env.PUBSUB_SUBSCRIPTION = <<>>
       THEN [err |-> TRUE, cfg |-> NoCfg]
       ELSE [err |-> FALSE,
             cfg |-> [ProjectID |-> env.PUBSUB_PROJECT,
                      TopicIDs |-> parseCommaSeparated(env.PUBSUB_TOPIC),
                      SubscriptionIDs |->
                          parseCommaSeparated(env.PUBSUB_SUBSCRIPTION),
                      MessageToPublish |-> MessageToPublish,
                      DashboardPort |-> getEnvOrDefault(env.DASHBOARD_PORT, <<>>),
                      PubSubPort |-> getEnvOrDefault(env.PUBSUB_PORT,
                                                     DefaultPubSubPort)]]

\* LoadFromEnv: (config, error)
LoadFromEnv(env) ==
    LET topics == parseCommaSeparated(env.PUBSUB_TOPIC)
        subs == parseCommaSeparated(env.PUBSUB_SUBSCRIPTION)
    IN IF \/ env.PUBSUB_PROJECT = <<>>
          \/ env.PUBSUB_TOPIC = <<>>
          \/ env.PUBSUB_SUBSCRIPTION = <<>>
          THEN [err |-> TRUE, cfg |-> NoCfg]
       ELSE IF Len(topics) # Len(subs)
          THEN [err |-> TRUE, cfg |-> NoCfg]
       ELSE [err |-> FALSE,
             cfg |-> [ProjectID |-> env.PUBSUB_PROJECT,
                      TopicIDs |-> topics,
                      SubscriptionIDs |-> subs,
                      MessageToPublish |-> MessageToPublish,
                      DashboardPort |-> getEnvOrDefault(env.DASHBOARD_PORT, <<>>),
                      PubSubPort |-> getEnvOrDefault(env.PUBSUB_PORT,
                                                     DefaultPubSubPort)]]

\* Config.Validate: TRUE when it returns nil
Validate(cfg) ==
    IF cfg.ProjectID = <<>> THEN FALSE
    ELSE IF Len(cfg.TopicIDs) = 0 THEN FALSE
    ELSE IF Len(cfg.SubscriptionIDs) = 0 THEN FALSE
    ELSE IF Len(cfg.TopicIDs) # Len(cfg.SubscriptionIDs) THEN FALSE
    ELSE TRUE

\* Config.IsDashboardEnabled
IsDashboardEnabled(cfg) == cfg.DashboardPort # <<>>

\* values of the list variables and the environments main may start in
ListValues == {<<>>, <<"a">>, <<"a", ",", "b">>, <<",">>,
               <<" ", "a", " ", ",", " ", "b">>, <<"a", ",">>}
Envs == [PUBSUB_PROJECT : {<<>>, <<"p">>},
         PUBSUB_TOPIC : ListValues,
         PUBSUB_SUBSCRIPTION : ListValues,
         DASHBOARD_PORT : {<<>>, <<"8", "0", "8", "0">>},
         PUBSUB_PORT : {<<>>, <<"9">>}]

\* ------------------------------------------------------------------------
\* State
\* ------------------------------------------------------------------------
VARIABLES
    messages,       \* Dashboard.messages
    messagesMutex,  \* Dashboard.messagesMutex: [w: holder of Lock, r: holders of RLock]
    wsClients,      \* Dashboard.wsClients: the registered connections
    wsClientsMux,   \* Dashboard.wsClientsMux
    broadcast,      \* Dashboard.broadcast: the buffered channel
    pc,             \* position of each goroutine of Procs
    loc,            \* request and local variables of each goroutine of Procs
    worker,         \* the broadcast worker: [pc, message, todo, cur]
    conn,           \* each connection: [st, closes, got, failedOn]
    broker,         \* the broker: [nextID, clock, pending, created, subs]
    appended,       \* history: every entry stored so far, in store order
    ops             \* number of operations the environment may still start

vars == <<messages, messagesMutex, wsClients, wsClientsMux, broadcast,
          pc, loc, worker, conn, broker, appended, ops>>

\* ------------------------------------------------------------------------
\* sync.RWMutex
\* ------------------------------------------------------------------------
FreeMutex == [w |-> NoProc, r |-> {}]

\* a Lock() that does not exclude another writer
CanLockRacy(mu) == mu.r = {}

\* Lock() may return: no writer and no reader holds the mutex
CanLock(mu) == mu.w = NoProc /\ mu.r = {}

\* RLock() may return: no writer holds the mutex
CanRLock(mu) == mu.w = NoProc

Lock(mu, p) == [mu EXCEPT !.w = p]
Unlock(mu, p) == [mu EXCEPT !.w = NoProc]
RLock(mu, p) == [mu EXCEPT !.r = @ \cup {p}]
RUnlock(mu, p) == [mu EXCEPT !.r = @ \ {p}]

\* ------------------------------------------------------------------------
\* Values
\* ------------------------------------------------------------------------
NoMsg == [ID |-> EmptyStr, Data |-> EmptyStr, Attributes |-> {}, PublishTime |-> 0]
NoInfo == [ID |-> EmptyStr, Data |-> EmptyStr, Attributes |-> {},
           PublishTime |-> 0, Topic |-> "", Received |-> 0]
NoResp == [code |-> 0]
\* a DashboardStats before GetStats fills it
NoStats == [TopicList |-> <<>>, SubscriptionList |-> <<>>, MessageCount |-> 0,
            TotalMessages |-> 0, HasLast |-> FALSE, LastMessageTime |-> 0,
            RecentMessages |-> <<>>]

\* locals of an idle goroutine
NoLoc == [kind |-> "none", msg |-> NoMsg, topic |-> "", id |-> EmptyStr,
          q |-> EmptyStr, rawq |-> EmptyStr, info |-> NoInfo, tmp |-> <<>>, snap |-> <<>>,
          found |-> FALSE, orig |-> NoInfo, attempts |-> 0, sent |-> FALSE,
          at |-> 0, stats |-> NoStats, err |-> FALSE, resp |-> NoResp,
          env |-> NoEnv, cfg |-> NoCfg, calls |-> <<>>, i |-> 0,
          method |-> "", ctype |-> "", body |-> [decodes |-> FALSE, TopicID |-> ""],
          topicIDs |-> <<>>, messageIDs |-> {}]

\* MessageInfo built by AddMessage from (msg, topic)
MessageInfoOf(msg, topic) ==
    [ID |-> msg.ID, Data |-> msg.Data, Attributes |-> msg.Attributes,
     PublishTime |-> msg.PublishTime, Topic |-> topic,
     Received |-> msg.PublishTime]

\* json.Marshal of the new_message event
MarshalEvent(info) == [type |-> "new_message", message |-> info]

\* a trim that keeps one entry too many
TrimOffByOne(s) == LastN(s, maxMessages + 1)

\* a trim that keeps the oldest entries instead of the newest
TrimKeepOldest(s) == IF Len(s) > maxMessages THEN SubSeq(s, 1, maxMessages) ELSE s

\* d.messages after "keep only the last maxMessages"
Trim(s) == LastN(s, maxMessages)

\* ------------------------------------------------------------------------
\* Init: the state after New and setupTopicsAndSubscriptions
\* ------------------------------------------------------------------------
\* the dashboard holding the given entries, all goroutines idle
InitFrom(store, budget) ==
    /\ messages = store
    /\ messagesMutex = FreeMutex
    /\ wsClients = {}
    /\ wsClientsMux = FreeMutex
    /\ broadcast = <<>>
    /\ pc = [p \in Procs |-> "idle"]
    /\ loc = [p \in Procs |-> NoLoc]
    /\ worker = [pc |-> "recv", message |-> NoInfo, todo |-> {}, cur |-> NoConn]
    /\ conn = [c \in Conns |-> [st |-> "new", closes |-> 0, got |-> <<>>,
                                failedOn |-> NoInfo]]
    /\ broker = [nextID |-> 1, clock |-> 1,
                 pending |-> [s \in Receivers |-> <<>>], created |-> {},
                 subs |-> {}, acked |-> [s \in Receivers |-> <<>>]]
    /\ appended = store
    /\ ops = budget

\* the dashboard as New returns it: an empty store
InitWith(budget) == InitFrom(<<>>, budget)

\* ------------------------------------------------------------------------
\* Dashboard.AddMessage, called with loc[p].msg and loc[p].topic
\* ------------------------------------------------------------------------
\* where AddMessage returns to, by caller
AfterAddMessage(p) ==
    CASE loc[p].kind = "deliver" -> "ack"
      [] loc[p].kind = "publish" -> "respond"
      [] loc[p].kind = "replay" -> "respond"
      [] loc[p].kind = "main" -> "init_pub"
      [] OTHER -> "idle"

\* an AddMessage that enqueues its event before it stores the entry
AddMessageLockSendEarly(p) ==
    /\ pc[p] = "am_lock"
    /\ CanLock(messagesMutex)
    /\ messagesMutex' = Lock(messagesMutex, p)
    /\ LET info == MessageInfoOf(loc[p].msg, loc[p].topic)
       IN /\ loc' = [loc EXCEPT ![p].info = info,
                                ![p].tmp = Append(messages, info)]
          /\ broadcast' = IF Len(broadcast) < BroadcastCap
                             THEN Append(broadcast, MarshalEvent(info))
                             ELSE broadcast
    /\ pc' = [pc EXCEPT ![p] = "am_store"]
    /\ UNCHANGED <<messages, wsClients, wsClientsMux, worker,
                   conn, broker, appended, ops>>

\* messagesMutex.Lock(); build msgInfo; evaluate append(d.messages, msgInfo)
AddMessageLock(p) ==
    /\ pc[p] = "am_lock"
    /\ CanLock(messagesMutex)
    /\ messagesMutex' = Lock(messagesMutex, p)
    /\ LET info == MessageInfoOf(loc[p].msg, loc[p].topic)
       IN loc' = [loc EXCEPT ![p].info = info,
                             ![p].tmp = Append(messages, info)]
    /\ pc' = [pc EXCEPT ![p] = "am_store"]
    /\ UNCHANGED <<messages, wsClients, wsClientsMux, broadcast, worker,
                   conn, broker, appended, ops>>

\* a store step that, for a replay, overwrites the replayed entry
AddMessageStoreInPlace(p) ==
    /\ pc[p] = "am_store"
    /\ LET hit == {i \in 1..Len(messages) :
                      loc[p].kind = "replay" /\ messages[i].ID = loc[p].id}
       IN messages' = IF hit # {}
                         THEN [messages EXCEPT
                                 ![CHOOSE i \in hit : TRUE] = loc[p].info]
                         ELSE Trim(loc[p].tmp)
    /\ appended' = Append(appended, loc[p].info)
    /\ loc' = [loc EXCEPT ![p].tmp = <<>>, ![p].at = Len(appended) + 1]
    /\ pc' = [pc EXCEPT ![p] = "am_send"]
    /\ UNCHANGED <<messagesMutex, wsClients, wsClientsMux, broadcast, worker,
                   conn, broker, ops>>

\* d.messages = append(...), trimmed to the last maxMessages
AddMessageStore(p) ==
    /\ pc[p] = "am_store"
    /\ messages' = Trim(loc[p].tmp)
    /\ appended' = Append(appended, loc[p].info)
    /\ loc' = [loc EXCEPT ![p].tmp = <<>>, ![p].at = Len(appended) + 1]
    /\ pc' = [pc EXCEPT ![p] = "am_send"]
    /\ UNCHANGED <<messagesMutex, wsClients, wsClientsMux, broadcast, worker,
                   conn, broker, ops>>

\* a send that enqueues the event whatever the length of the queue
AddMessageSendUnbounded(p) ==
    /\ pc[p] = "am_send"
    /\ broadcast' = Append(broadcast, MarshalEvent(loc[p].info))
    /\ loc' = [loc EXCEPT ![p].sent = TRUE]
    /\ messagesMutex' = Unlock(messagesMutex, p)
    /\ pc' = [pc EXCEPT ![p] = AfterAddMessage(p)]
    /\ UNCHANGED <<messages, wsClients, wsClientsMux, worker, conn, broker,
                   appended, ops>>

\* a send without the default case: it waits for room in the channel
AddMessageSendBlocking(p) ==
    /\ pc[p] = "am_send"
    /\ Len(broadcast) < BroadcastCap
    /\ broadcast' = Append(broadcast, MarshalEvent(loc[p].info))
    /\ loc' = [loc EXCEPT ![p].sent = TRUE]
    /\ messagesMutex' = Unlock(messagesMutex, p)
    /\ pc' = [pc EXCEPT ![p] = AfterAddMessage(p)]
    /\ UNCHANGED <<messages, wsClients, wsClientsMux, worker, conn, broker,
                   appended, ops>>

\* json.Marshal, the non-blocking send on d.broadcast, then the deferred
\* messagesMutex.Unlock(): AddMessage returns
AddMessageSend(p) ==
    /\ pc[p] = "am_send"
    /\ IF Len(broadcast) < BroadcastCap
          THEN /\ broadcast' = Append(broadcast, MarshalEvent(loc[p].info))
               /\ loc' = [loc EXCEPT ![p].sent = TRUE]
          ELSE /\ broadcast' = broadcast
               /\ loc' = [loc EXCEPT ![p].sent = FALSE]
    /\ messagesMutex' = Unlock(messagesMutex, p)
    /\ pc' = [pc EXCEPT ![p] = AfterAddMessage(p)]
    /\ UNCHANGED <<messages, wsClients, wsClientsMux, worker, conn, broker,
                   appended, ops>>

AddMessage(p) ==
    \/ AddMessageLock(p)
    \/ AddMessageStore(p)
    \/ AddMessageSend(p)

\* ------------------------------------------------------------------------
\* The broker (external collaborator): Publisher.Publish + result.Get
\* ------------------------------------------------------------------------
\* topics that exist in the broker (created by setupTopicsAndSubscriptions)
BrokerTopics == {TopicIDs[i] : i \in 1..Len(TopicIDs)}

\* the subscriptions bound to a topic
SubsOfTopic(t) == {s \in Receivers : TopicOfSub(s) = t}

\* the message the broker hands to the subscriptions of its topic
BrokerMessage(b, data, attrs) ==
    [ID |-> BrokerID(b.nextID), Data |-> data, Attributes |-> attrs,
     PublishTime |-> b.clock]

\* the broker after accepting a publish on topic t
BrokerAccept(b, t, data, attrs) ==
    [b EXCEPT !.nextID = @ + 1,
              !.clock = @ + 2,
              !.pending = [s \in Receivers |->
                             IF s \in SubsOfTopic(t)
                                THEN Append(@[s], BrokerMessage(b, data, attrs))
                                ELSE @[s]]]

\* a publish can succeed: the topic exists (and the model has IDs left)
CanAccept(b, t) == t \in (BrokerTopics \cup b.created) /\ b.nextID <= MaxPublish

\* another client of the broker publishes on a configured topic
ExternalPublish ==
    /\ ops > 0
    /\ \E req \in ExternalRequests :
          /\ CanAccept(broker, req[1])
          /\ broker' = BrokerAccept(broker, req[1], req[2], AttrsOf(req[2]))
    /\ ops' = ops - 1
    /\ UNCHANGED <<messages, messagesMutex, wsClients, wsClientsMux,
                   broadcast, pc, loc, worker, conn, appended>>

\* ------------------------------------------------------------------------
\* Subscription delivery: the callback of SubscribeToAll with the handler
\* of startSubscriptions
\* ------------------------------------------------------------------------
\* the topic the handler of startSubscriptions records a delivery under
HandlerTopic(sub) == IF Len(TopicIDs) > 0 THEN TopicIDs[1] ELSE ""

\* a callback that acknowledges the message before it calls the handler
ReceiveAckFirst(s) ==
    /\ pc[s] = "idle"
    /\ broker.pending[s] # <<>>
    /\ broker' = [broker EXCEPT
                    !.pending[s] = Tail(@),
                    !.acked[s] = Append(@, Head(broker.pending[s]).ID)]
    /\ loc' = [loc EXCEPT ![s] = [NoLoc EXCEPT !.kind = "deliver",
                                               !.msg = Head(broker.pending[s]),
                                               !.topic = HandlerTopic(s)]]
    /\ pc' = [pc EXCEPT ![s] = "am_lock"]
    /\ UNCHANGED <<messages, messagesMutex, wsClients, wsClientsMux,
                   broadcast, worker, conn, appended, ops>>

\* sub.Receive invokes the callback with the next message; the handler
\* calls dash.AddMessage(msg, topicID)
Receive(s) ==
    /\ pc[s] = "idle"
    /\ broker.pending[s] # <<>>
    /\ broker' = [broker EXCEPT !.pending[s] = Tail(@)]
    /\ loc' = [loc EXCEPT ![s] = [NoLoc EXCEPT !.kind = "deliver",
                                               !.msg = Head(broker.pending[s]),
                                               !.topic = HandlerTopic(s)]]
    /\ pc' = [pc EXCEPT ![s] = "am_lock"]
    /\ UNCHANGED <<messages, messagesMutex, wsClients, wsClientsMux,
                   broadcast, worker, conn, appended, ops>>

\* msg.Ack() after the handler returned: the broker notes the
\* acknowledgement of the message
Ack(s) ==
    /\ pc[s] = "ack"
    /\ broker' = [broker EXCEPT !.acked[s] = Append(@, loc[s].msg.ID)]
    /\ pc' = [pc EXCEPT ![s] = "idle"]
    /\ loc' = [loc EXCEPT ![s] = NoLoc]
    /\ UNCHANGED <<messages, messagesMutex, wsClients, wsClientsMux,
                   broadcast, worker, conn, appended, ops>>

\* ------------------------------------------------------------------------
\* HTTP handlers
\* ------------------------------------------------------------------------
Methods == {"GET", "POST"}

\* the handler has written its response (or the call has returned)
Respond(p) ==
    /\ pc[p] = "respond"
    /\ pc' = [pc EXCEPT ![p] = "idle"]
    /\ loc' = [loc EXCEPT ![p] = NoLoc]
    /\ UNCHANGED <<messages, messagesMutex, wsClients, wsClientsMux,
                   broadcast, worker, conn, broker, appended, ops>>

\* a request ends at once with an error status
Reject(p, method, kind, code) ==
    /\ loc' = [loc EXCEPT ![p] = [NoLoc EXCEPT !.kind = kind,
                                               !.method = method,
                                               !.resp = [code |-> code]]]
    /\ pc' = [pc EXCEPT ![p] = "respond"]

\* the longest data handlePublish accepts: 10 MB
MaxDataLen == 10 * 1024 * 1024
\* stands for a data string longer than MaxDataLen
LargeData == <<"L">>
\* len(req.Data)
DataLen(data) == IF data = LargeData THEN MaxDataLen + 1 ELSE Len(data)
\* request bodies of /api/publish: one that does not decode, and
\* PublishRequest values
PublishBodies ==
    {[decodes |-> FALSE, TopicID |-> "", Data |-> EmptyStr]}
    \cup {[decodes |-> TRUE, TopicID |-> req[1], Data |-> req[2]] :
             req \in PublishRequests \cup {<<"t1", LargeData>>}}

\* a handlePublish that hands every decoded request to the broker
handlePublishNoValidation(p) ==
    /\ pc[p] = "idle"
    /\ ops > 0
    /\ ops' = ops - 1
    /\ \E method \in Methods, body \in PublishBodies :
          LET l == [NoLoc EXCEPT !.kind = "publish", !.method = method,
                                 !.body = body]
          IN IF method # "POST"
                THEN /\ loc' = [loc EXCEPT ![p] = [l EXCEPT !.resp = [code |-> 405]]]
                     /\ pc' = [pc EXCEPT ![p] = "respond"]
             ELSE /\ loc' = [loc EXCEPT ![p] =
                               [l EXCEPT
                                  !.topic = body.TopicID,
                                  !.msg = [NoMsg EXCEPT
                                             !.Data = body.Data,
                                             !.Attributes = AttrsOf(body.Data)]]]
                  /\ pc' = [pc EXCEPT ![p] = "pub_call"]
    /\ UNCHANGED <<messages, messagesMutex, wsClients, wsClientsMux,
                   broadcast, worker, conn, broker, appended>>

\* handlePublish up to the call of the broker
handlePublish(p) ==
    /\ pc[p] = "idle"
    /\ ops > 0
    /\ ops' = ops - 1
    /\ \E method \in Methods, body \in PublishBodies :
          LET l == [NoLoc EXCEPT !.kind = "publish", !.method = method,
                                 !.body = body]
          IN IF method # "POST"
                THEN /\ loc' = [loc EXCEPT ![p] = [l EXCEPT !.resp = [code |-> 405]]]
                     /\ pc' = [pc EXCEPT ![p] = "respond"]
             ELSE IF \/ ~body.decodes
                     \/ body.TopicID = ""
                     \/ body.Data = EmptyStr
                     \/ DataLen(body.Data) > MaxDataLen
                THEN /\ loc' = [loc EXCEPT ![p] = [l EXCEPT !.resp = [code |-> 400]]]
                     /\ pc' = [pc EXCEPT ![p] = "respond"]
             ELSE /\ loc' = [loc EXCEPT ![p] =
                               [l EXCEPT
                                  !.topic = body.TopicID,
                                  !.msg = [NoMsg EXCEPT
                                             !.Data = body.Data,
                                             !.Attributes = AttrsOf(body.Data)]]]
                  /\ pc' = [pc EXCEPT ![p] = "pub_call"]
    /\ UNCHANGED <<messages, messagesMutex, wsClients, wsClientsMux,
                   broadcast, worker, conn, broker, appended>>

\* a response that reports the requested ID as the new one
PublishResponseEcho(l, msgID) ==
    IF l.kind = "replay"
       THEN [code |-> 200, messageId |-> l.id, originalId |-> l.id]
       ELSE [code |-> 200, messageId |-> msgID]

\* the response of a successful publish or replay
PublishResponse(l, msgID) ==
    IF l.kind = "replay"
       THEN [code |-> 200, messageId |-> msgID, originalId |-> l.id]
       ELSE [code |-> 200, messageId |-> msgID]

\* a publish call that tries once more after the broker's rejection
PublishCallRetry(p) ==
    /\ pc[p] = "pub_call"
    /\ \/ /\ CanAccept(broker, loc[p].topic)
          /\ broker' = BrokerAccept(broker, loc[p].topic, loc[p].msg.Data,
                                    loc[p].msg.Attributes)
          /\ LET msgID == BrokerID(broker.nextID)
             IN loc' = [loc EXCEPT ![p].attempts = @ + 1,
                                   ![p].msg.ID = msgID,
                                   ![p].msg.PublishTime = broker.clock + 1,
                                   ![p].resp = PublishResponse(loc[p], msgID)]
          /\ pc' = [pc EXCEPT ![p] = "am_lock"]
       \/ /\ broker' = broker
          /\ loc' = [loc EXCEPT ![p].attempts = @ + 1,
                                ![p].resp = [code |-> 500]]
          /\ pc' = [pc EXCEPT ![p] = IF loc[p].attempts = 0 THEN "pub_call"
                                                             ELSE "respond"]
    /\ UNCHANGED <<messages, messagesMutex, wsClients, wsClientsMux,
                   broadcast, worker, conn, appended, ops>>

\* publisher.Publish + result.Get in handlePublish and handleReplay:
\* on success msg.ID = msgID, msg.PublishTime = time.Now() and AddMessage
\* is called; on failure the handler answers 500
PublishCall(p) ==
    /\ pc[p] = "pub_call"
    /\ \/ /\ CanAccept(broker, loc[p].topic)
          /\ broker' = BrokerAccept(broker, loc[p].topic, loc[p].msg.Data,
                                    loc[p].msg.Attributes)
          /\ LET msgID == BrokerID(broker.nextID)
             IN loc' = [loc EXCEPT ![p].attempts = @ + 1,
                                   ![p].msg.ID = msgID,
                                   ![p].msg.PublishTime = broker.clock + 1,
                                   ![p].resp = PublishResponse(loc[p], msgID)]
          /\ pc' = [pc EXCEPT ![p] = "am_lock"]
       \/ /\ broker' = broker
          /\ loc' = [loc EXCEPT ![p].attempts = @ + 1,
                                ![p].resp = [code |-> 500]]
          /\ pc' = [pc EXCEPT ![p] = "respond"]
    /\ UNCHANGED <<messages, messagesMutex, wsClients, wsClientsMux,
                   broadcast, worker, conn, appended, ops>>

\* a scan that keeps the last entry with the given ID
FindLastByID(msgs, id) ==
    IF \E i \in 1..Len(msgs) : msgs[i].ID = id
       THEN CHOOSE i \in 1..Len(msgs) :
              /\ msgs[i].ID = id
              /\ \A j \in (i + 1)..Len(msgs) : msgs[j].ID # id
       ELSE 0

\* first index of an entry with the given ID, 0 when there is none
FindByID(msgs, id) ==
    IF \E i \in 1..Len(msgs) : msgs[i].ID = id
       THEN CHOOSE i \in 1..Len(msgs) :
              /\ msgs[i].ID = id
              /\ \A j \in 1..(i - 1) : msgs[j].ID # id
       ELSE 0

\* IDs a replay or lookup request may name
RequestIDs == {BrokerID(1), BrokerID(2), <<"z">>}

\* handleReplay up to the lookup
handleReplay(p) ==
    /\ pc[p] = "idle"
    /\ ops > 0
    /\ ops' = ops - 1
    /\ \E method \in Methods, id \in RequestIDs \cup {EmptyStr} :
          IF method # "POST" THEN Reject(p, method, "replay", 405)
          ELSE IF id = EmptyStr THEN Reject(p, method, "replay", 400)
          ELSE /\ loc' = [loc EXCEPT ![p] = [NoLoc EXCEPT !.kind = "replay",
                                                         !.method = method,
                                                         !.id = id]]
               /\ pc' = [pc EXCEPT ![p] = "rp_rlock"]
    /\ UNCHANGED <<messages, messagesMutex, wsClients, wsClientsMux,
                   broadcast, worker, conn, broker, appended>>

\* handleReplay: RLock and the scan that copies the first match
ReplayLookup(p) ==
    /\ pc[p] = "rp_rlock"
    /\ CanRLock(messagesMutex)
    /\ messagesMutex' = RLock(messagesMutex, p)
    /\ LET i == FindByID(messages, loc[p].id)
       IN loc' = [loc EXCEPT ![p].found = (i # 0),
                             ![p].orig = IF i # 0 THEN messages[i] ELSE NoInfo]
    /\ pc' = [pc EXCEPT ![p] = "rp_runlock"]
    /\ UNCHANGED <<messages, wsClients, wsClientsMux, broadcast, worker,
                   conn, broker, appended, ops>>

\* a replay that goes on to publish although the lookup found nothing
ReplayRUnlockNoCheck(p) ==
    /\ pc[p] = "rp_runlock"
    /\ messagesMutex' = RUnlock(messagesMutex, p)
    /\ loc' = [loc EXCEPT
                 ![p].topic = loc[p].orig.Topic,
                 ![p].msg = [NoMsg EXCEPT
                               !.Data = loc[p].orig.Data,
                               !.Attributes = loc[p].orig.Attributes]]
    /\ pc' = [pc EXCEPT ![p] = "pub_call"]
    /\ UNCHANGED <<messages, wsClients, wsClientsMux, broadcast, worker,
                   conn, broker, appended, ops>>

\* handleReplay: RUnlock, then 404 or the message to publish again
ReplayRUnlock(p) ==
    /\ pc[p] = "rp_runlock"
    /\ messagesMutex' = RUnlock(messagesMutex, p)
    /\ IF ~loc[p].found
          THEN /\ loc' = [loc EXCEPT ![p].resp = [code |-> 404]]
               /\ pc' = [pc EXCEPT ![p] = "respond"]
          ELSE /\ loc' = [loc EXCEPT
                            ![p].topic = loc[p].orig.Topic,
                            ![p].msg = [NoMsg EXCEPT
                                          !.Data = loc[p].orig.Data,
                                          !.Attributes = loc[p].orig.Attributes]]
               /\ pc' = [pc EXCEPT ![p] = "pub_call"]
    /\ UNCHANGED <<messages, wsClients, wsClientsMux, broadcast, worker,
                   conn, broker, appended, ops>>

\* ------------------------------------------------------------------------
\* Read operations on the store
\* ------------------------------------------------------------------------
\* a copy that misses the newest entry
CopyAllButLast(msgs) == [i \in 1..(Len(msgs) - 1) |-> msgs[i]]

\* make([]MessageInfo, len(d.messages)); copy(messages, d.messages)
CopyMessages(msgs) == [i \in 1..Len(msgs) |-> msgs[i]]

\* a read request that is served whatever its method
StartReadAnyMethod(p, kind) ==
    /\ pc[p] = "idle"
    /\ ops > 0
    /\ ops' = ops - 1
    /\ \E method \in Methods :
          /\ loc' = [loc EXCEPT ![p] = [NoLoc EXCEPT !.kind = kind,
                                                    !.method = method]]
          /\ pc' = [pc EXCEPT ![p] = "cp_rlock"]
    /\ UNCHANGED <<messages, messagesMutex, wsClients, wsClientsMux,
                   broadcast, worker, conn, broker, appended>>

\* a read request starts; a method other than GET is answered with 405
StartRead(p, kind) ==
    /\ pc[p] = "idle"
    /\ ops > 0
    /\ ops' = ops - 1
    /\ \E method \in Methods :
          IF method # "GET" THEN Reject(p, method, kind, 405)
          ELSE /\ loc' = [loc EXCEPT ![p] = [NoLoc EXCEPT !.kind = kind,
                                                         !.method = method]]
               /\ pc' = [pc EXCEPT ![p] = "cp_rlock"]
    /\ UNCHANGED <<messages, messagesMutex, wsClients, wsClientsMux,
                   broadcast, worker, conn, broker, appended>>

handleMessages(p) == StartRead(p, "messages")
handleExportJSON(p) == StartRead(p, "exportJSON")
handleExportCSV(p) == StartRead(p, "exportCSV")

\* a direct call of Dashboard.GetMessages
GetMessages(p) ==
    /\ pc[p] = "idle"
    /\ ops > 0
    /\ ops' = ops - 1
    /\ loc' = [loc EXCEPT ![p] = [NoLoc EXCEPT !.kind = "getMessages"]]
    /\ pc' = [pc EXCEPT ![p] = "cp_rlock"]
    /\ UNCHANGED <<messages, messagesMutex, wsClients, wsClientsMux,
                   broadcast, worker, conn, broker, appended>>

\* a getter that hands the entries out and empties the store
SnapshotRLockDrain(p) ==
    /\ pc[p] = "cp_rlock"
    /\ CanRLock(messagesMutex)
    /\ messagesMutex' = RLock(messagesMutex, p)
    /\ loc' = [loc EXCEPT ![p].snap = CopyMessages(messages),
                          ![p].at = Len(appended)]
    /\ messages' = <<>>
    /\ pc' = [pc EXCEPT ![p] = "cp_runlock"]
    /\ UNCHANGED <<wsClients, wsClientsMux, broadcast, worker,
                   conn, broker, appended, ops>>

\* RLock and the copy of d.messages
SnapshotRLock(p) ==
    /\ pc[p] = "cp_rlock"
    /\ CanRLock(messagesMutex)
    /\ messagesMutex' = RLock(messagesMutex, p)
    /\ loc' = [loc EXCEPT ![p].snap = CopyMessages(messages),
                          ![p].at = Len(appended)]
    /\ pc' = [pc EXCEPT ![p] = "cp_runlock"]
    /\ UNCHANGED <<messages, wsClients, wsClientsMux, broadcast, worker,
                   conn, broker, appended, ops>>

\* RUnlock; the copy is then encoded into the response (or returned)
SnapshotRUnlock(p) ==
    /\ pc[p] = "cp_runlock"
    /\ messagesMutex' = RUnlock(messagesMutex, p)
    /\ loc' = [loc EXCEPT ![p].resp = [code |-> 200, body |-> loc[p].snap]]
    /\ pc' = [pc EXCEPT ![p] = "respond"]
    /\ UNCHANGED <<messages, wsClients, wsClientsMux, broadcast, worker,
                   conn, broker, appended, ops>>

\* Dashboard.GetMessageByID is called
GetMessageByID(p) ==
    /\ pc[p] = "idle"
    /\ ops > 0
    /\ ops' = ops - 1
    /\ \E id \in RequestIDs :
          loc' = [loc EXCEPT ![p] = [NoLoc EXCEPT !.kind = "byID", !.id = id]]
    /\ pc' = [pc EXCEPT ![p] = "id_rlock"]
    /\ UNCHANGED <<messages, messagesMutex, wsClients, wsClientsMux,
                   broadcast, worker, conn, broker, appended>>

\* a lookup that takes the entry it finds out of the store
ByIDLookupTake(p) ==
    /\ pc[p] = "id_rlock"
    /\ CanRLock(messagesMutex)
    /\ messagesMutex' = RLock(messagesMutex, p)
    /\ LET i == FindByID(messages, loc[p].id)
       IN /\ loc' = [loc EXCEPT ![p].found = (i # 0),
                                ![p].orig = IF i # 0 THEN messages[i] ELSE NoInfo]
          /\ messages' = IF i # 0
                            THEN SubSeq(messages, 1, i - 1)
                                 \o SubSeq(messages, i + 1, Len(messages))
                            ELSE messages
    /\ pc' = [pc EXCEPT ![p] = "id_runlock"]
    /\ UNCHANGED <<wsClients, wsClientsMux, broadcast, worker,
                   conn, broker, appended, ops>>

\* GetMessageByID: RLock and the scan for the first match
ByIDLookup(p) ==
    /\ pc[p] = "id_rlock"
    /\ CanRLock(messagesMutex)
    /\ messagesMutex' = RLock(messagesMutex, p)
    /\ LET i == FindByID(messages, loc[p].id)
       IN loc' = [loc EXCEPT ![p].found = (i # 0),
                             ![p].orig = IF i # 0 THEN messages[i] ELSE NoInfo]
    /\ pc' = [pc EXCEPT ![p] = "id_runlock"]
    /\ UNCHANGED <<messages, wsClients, wsClientsMux, broadcast, worker,
                   conn, broker, appended, ops>>

\* GetMessageByID: the deferred RUnlock; returns the entry or nil
ByIDRUnlock(p) ==
    /\ pc[p] = "id_runlock"
    /\ messagesMutex' = RUnlock(messagesMutex, p)
    /\ loc' = [loc EXCEPT ![p].resp =
                 IF loc[p].found THEN [code |-> 200, body |-> loc[p].orig]
                                 ELSE [code |-> 404]]
    /\ pc' = [pc EXCEPT ![p] = "respond"]
    /\ UNCHANGED <<messages, wsClients, wsClientsMux, broadcast, worker,
                   conn, broker, appended, ops>>

\* a filter that compares the message ID without lower-casing it
MatchesRawID(msg, searchTerm, topicFilter) ==
    /\ ~(topicFilter # "" /\ msg.Topic # topicFilter)
    /\ ~(/\ searchTerm # EmptyStr
         /\ ~Contains(ToLower(msg.Data), searchTerm)
         /\ ~Contains(msg.ID, searchTerm))

\* the filter loop of handleSearchMessages; searchTerm is already lower-cased
Matches(msg, searchTerm, topicFilter) ==
    /\ ~(topicFilter # "" /\ msg.Topic # topicFilter)
    /\ ~(/\ searchTerm # EmptyStr
         /\ ~Contains(ToLower(msg.Data), searchTerm)
         /\ ~Contains(ToLower(msg.ID), searchTerm))

RECURSIVE Filtered(_, _, _)
Filtered(msgs, searchTerm, topicFilter) ==
    IF msgs = <<>> THEN <<>>
    ELSE (IF Matches(Head(msgs), searchTerm, topicFilter)
             THEN <<Head(msgs)>> ELSE <<>>)
         \o Filtered(Tail(msgs), searchTerm, topicFilter)

\* search terms and topic filters a request may carry
QuerySet == {EmptyStr, <<"a", "B">>, <<"B">>, <<"M", "1">>}
TopicFilters == {"", "t1", "t2"}

\* handleSearchMessages up to the RLock
handleSearchMessages(p) ==
    /\ pc[p] = "idle"
    /\ ops > 0
    /\ ops' = ops - 1
    /\ \E method \in Methods, q \in QuerySet, t \in TopicFilters :
          IF method # "GET" THEN Reject(p, method, "search", 405)
          ELSE /\ loc' = [loc EXCEPT ![p] = [NoLoc EXCEPT !.kind = "search",
                                                         !.method = method,
                                                         !.rawq = q,
                                                         !.q = ToLower(q),
                                                         !.topic = t]]
               /\ pc' = [pc EXCEPT ![p] = "sr_rlock"]
    /\ UNCHANGED <<messages, messagesMutex, wsClients, wsClientsMux,
                   broadcast, worker, conn, broker, appended>>

\* handleSearchMessages: RLock and the filter loop
SearchRLock(p) ==
    /\ pc[p] = "sr_rlock"
    /\ CanRLock(messagesMutex)
    /\ messagesMutex' = RLock(messagesMutex, p)
    /\ loc' = [loc EXCEPT ![p].snap = messages,
                          ![p].resp = [code |-> 200,
                                       body |-> Filtered(messages, loc[p].q,
                                                         loc[p].topic)]]
    /\ pc' = [pc EXCEPT ![p] = "sr_write"]
    /\ UNCHANGED <<messages, wsClients, wsClientsMux, broadcast, worker,
                   conn, broker, appended, ops>>

\* handleSearchMessages: the response is encoded, then the deferred RUnlock
SearchWrite(p) ==
    /\ pc[p] = "sr_write"
    /\ messagesMutex' = RUnlock(messagesMutex, p)
    /\ pc' = [pc EXCEPT ![p] = "idle"]
    /\ loc' = [loc EXCEPT ![p] = NoLoc]
    /\ UNCHANGED <<messages, wsClients, wsClientsMux, broadcast, worker,
                   conn, broker, appended, ops>>

\* ------------------------------------------------------------------------
\* Statistics: handleStats and Dashboard.GetStats
\* ------------------------------------------------------------------------
\* what a listing loop collects: it.Next() fails at once, or at the end
Listing(all, fails) == IF fails THEN <<>> ELSE all

\* handleStats up to the store read of GetStats: the two listing loops
handleStats(p) ==
    /\ pc[p] = "idle"
    /\ ops > 0
    /\ ops' = ops - 1
    /\ \E method \in Methods, topicErr \in BOOLEAN, subErr \in BOOLEAN :
          IF method # "GET" THEN Reject(p, method, "stats", 405)
          ELSE /\ loc' = [loc EXCEPT ![p] =
                            [NoLoc EXCEPT
                               !.kind = "stats",
                               !.method = method,
                               !.err = (topicErr \/ subErr),
                               !.stats = [NoStats EXCEPT
                                  !.TopicList = Listing(TopicIDs, topicErr),
                                  !.SubscriptionList =
                                      Listing(SubscriptionIDs, subErr)]]]
               /\ pc' = [pc EXCEPT ![p] = "st_rlock"]
    /\ UNCHANGED <<messages, messagesMutex, wsClients, wsClientsMux,
                   broadcast, worker, conn, broker, appended>>

\* a GetStats that reports a zero-value time instead of none on an empty store
StatsRLockZeroTime(p) ==
    /\ pc[p] = "st_rlock"
    /\ CanRLock(messagesMutex)
    /\ messagesMutex' = RLock(messagesMutex, p)
    /\ loc' = [loc EXCEPT
                 ![p].snap = messages,
                 ![p].at = Len(appended),
                 ![p].stats.MessageCount = Len(messages),
                 ![p].stats.TotalMessages = Len(messages),
                 ![p].stats.HasLast = TRUE,
                 ![p].stats.LastMessageTime =
                     IF Len(messages) > 0 THEN messages[Len(messages)].Received
                                          ELSE 0,
                 ![p].stats.RecentMessages = LastN(messages, RecentWindow)]
    /\ pc' = [pc EXCEPT ![p] = "st_runlock"]
    /\ UNCHANGED <<messages, wsClients, wsClientsMux, broadcast, worker,
                   conn, broker, appended, ops>>

\* a GetStats whose window is the first entries of the store: d.messages[:n]
StatsRLockOldest(p) ==
    /\ pc[p] = "st_rlock"
    /\ CanRLock(messagesMutex)
    /\ messagesMutex' = RLock(messagesMutex, p)
    /\ loc' = [loc EXCEPT
                 ![p].snap = messages,
                 ![p].at = Len(appended),
                 ![p].stats.MessageCount = Len(messages),
                 ![p].stats.TotalMessages = Len(messages),
                 ![p].stats.HasLast = (Len(messages) > 0),
                 ![p].stats.LastMessageTime =
                     IF Len(messages) > 0 THEN messages[Len(messages)].Received
                                          ELSE 0,
                 ![p].stats.RecentMessages =
                     IF Len(messages) > RecentWindow
                        THEN SubSeq(messages, 1, RecentWindow) ELSE messages]
    /\ pc' = [pc EXCEPT ![p] = "st_runlock"]
    /\ UNCHANGED <<messages, wsClients, wsClientsMux, broadcast, worker,
                   conn, broker, appended, ops>>

\* GetStats: RLock and the reads of d.messages
StatsRLock(p) ==
    /\ pc[p] = "st_rlock"
    /\ CanRLock(messagesMutex)
    /\ messagesMutex' = RLock(messagesMutex, p)
    /\ loc' = [loc EXCEPT
                 ![p].snap = messages,
                 ![p].at = Len(appended),
                 ![p].stats.MessageCount = Len(messages),
                 ![p].stats.TotalMessages = Len(messages),
                 ![p].stats.HasLast = (Len(messages) > 0),
                 ![p].stats.LastMessageTime =
                     IF Len(messages) > 0 THEN messages[Len(messages)].Received
                                          ELSE 0,
                 ![p].stats.RecentMessages = LastN(messages, RecentWindow)]
    /\ pc' = [pc EXCEPT ![p] = "st_runlock"]
    /\ UNCHANGED <<messages, wsClients, wsClientsMux, broadcast, worker,
                   conn, broker, appended, ops>>

\* GetStats: RUnlock and return (stats, nil); handleStats encodes the stats
StatsRUnlock(p) ==
    /\ pc[p] = "st_runlock"
    /\ messagesMutex' = RUnlock(messagesMutex, p)
    /\ loc' = [loc EXCEPT ![p].resp = [code |-> 200, body |-> loc[p].stats]]
    /\ pc' = [pc EXCEPT ![p] = "respond"]
    /\ UNCHANGED <<messages, wsClients, wsClientsMux, broadcast, worker,
                   conn, broker, appended, ops>>

\* ------------------------------------------------------------------------
\* Viewers: HandleWebSocket, RegisterWebSocketClient, UnregisterWebSocketClient
\* ------------------------------------------------------------------------
\* upgrader.Upgrade: the connection is established, or the handler returns
Upgrade(c) ==
    /\ conn[c].st = "new"
    /\ ops > 0
    /\ ops' = ops - 1
    /\ \/ conn' = [conn EXCEPT ![c].st = "upgraded"]
       \/ conn' = [conn EXCEPT ![c].st = "done"]
    /\ UNCHANGED <<messages, messagesMutex, wsClients, wsClientsMux,
                   broadcast, pc, loc, worker, broker, appended>>

\* RegisterWebSocketClient: Lock, d.wsClients[conn] = true, Unlock
RegisterWebSocketClient(c) ==
    /\ conn[c].st = "upgraded"
    /\ CanLock(wsClientsMux)
    /\ wsClients' = wsClients \cup {c}
    /\ conn' = [conn EXCEPT ![c].st = "reading"]
    /\ UNCHANGED <<messages, messagesMutex, wsClientsMux, broadcast, pc, loc,
                   worker, broker, appended, ops>>

\* conn.ReadMessage returns an error: the read loop of HandleWebSocket ends
ReadError(c) ==
    /\ conn[c].st = "reading"
    /\ conn' = [conn EXCEPT ![c].st = "leaving"]
    /\ UNCHANGED <<messages, messagesMutex, wsClients, wsClientsMux,
                   broadcast, pc, loc, worker, broker, appended, ops>>

\* UnregisterWebSocketClient: Lock, delete(d.wsClients, conn), Unlock
UnregisterWebSocketClient(c) ==
    /\ conn[c].st = "leaving"
    /\ CanLock(wsClientsMux)
    /\ wsClients' = wsClients \ {c}
    /\ conn' = [conn EXCEPT ![c].st = "closing"]
    /\ UNCHANGED <<messages, messagesMutex, wsClientsMux, broadcast, pc, loc,
                   worker, broker, appended, ops>>

\* UnregisterWebSocketClient: conn.Close(); HandleWebSocket returns
UnregisterClose(c) ==
    /\ conn[c].st = "closing"
    /\ conn' = [conn EXCEPT ![c].st = "done", ![c].closes = @ + 1]
    /\ UNCHANGED <<messages, messagesMutex, wsClients, wsClientsMux,
                   broadcast, pc, loc, worker, broker, appended, ops>>

\* ------------------------------------------------------------------------
\* The broadcast worker: Dashboard.handleBroadcast
\* ------------------------------------------------------------------------
\* receive the next event from d.broadcast and take the registry's RLock
WorkerRecv ==
    /\ worker.pc = "recv"
    /\ broadcast # <<>>
    /\ CanRLock(wsClientsMux)
    /\ broadcast' = Tail(broadcast)
    /\ wsClientsMux' = RLock(wsClientsMux, Worker)
    /\ worker' = [worker EXCEPT !.pc = "iter", !.message = Head(broadcast),
                                !.todo = wsClients]
    /\ UNCHANGED <<messages, messagesMutex, wsClients, pc, loc, conn, broker,
                   appended, ops>>

\* the range loop reaches a client: client.WriteMessage is called
WorkerWrite(c) ==
    /\ worker.pc = "iter"
    /\ c \in worker.todo
    /\ worker' = [worker EXCEPT !.pc = "write", !.cur = c, !.todo = @ \ {c}]
    /\ UNCHANGED <<messages, messagesMutex, wsClients, wsClientsMux,
                   broadcast, pc, loc, conn, broker, appended, ops>>

\* a worker that closes the client after a failed write but leaves it in
\* d.wsClients
WorkerWriteDoneNoRemove ==
    /\ worker.pc = "write"
    /\ \/ /\ conn[worker.cur].closes = 0
          /\ conn' = [conn EXCEPT ![worker.cur].got = Append(@, worker.message)]
       \/ conn' = [conn EXCEPT ![worker.cur].closes = @ + 1,
                               ![worker.cur].failedOn = worker.message]
    /\ wsClients' = wsClients
    /\ worker' = [worker EXCEPT !.pc = "iter", !.cur = NoConn]
    /\ UNCHANGED <<messages, messagesMutex, wsClientsMux, broadcast, pc, loc,
                   broker, appended, ops>>

\* a worker that writes every event twice
WorkerWriteDoneTwice ==
    /\ worker.pc = "write"
    /\ \/ /\ conn[worker.cur].closes = 0
          /\ conn' = [conn EXCEPT ![worker.cur].got =
                         Append(Append(@, worker.message), worker.message)]
          /\ wsClients' = wsClients
       \/ /\ conn' = [conn EXCEPT ![worker.cur].closes = @ + 1,
                                   ![worker.cur].failedOn = worker.message]
          /\ wsClients' = wsClients \ {worker.cur}
    /\ worker' = [worker EXCEPT !.pc = "iter", !.cur = NoConn]
    /\ UNCHANGED <<messages, messagesMutex, wsClientsMux, broadcast, pc, loc,
                   broker, appended, ops>>

\* WriteMessage returns: the event was written, or the write failed and the
\* client is closed and deleted from d.wsClients
WorkerWriteDone ==
    /\ worker.pc = "write"
    /\ \/ /\ conn[worker.cur].closes = 0
          /\ conn' = [conn EXCEPT ![worker.cur].got = Append(@, worker.message)]
          /\ wsClients' = wsClients
       \/ /\ conn' = [conn EXCEPT ![worker.cur].closes = @ + 1,
                                   ![worker.cur].failedOn = worker.message]
          /\ wsClients' = wsClients \ {worker.cur}
    /\ worker' = [worker EXCEPT !.pc = "iter", !.cur = NoConn]
    /\ UNCHANGED <<messages, messagesMutex, wsClientsMux, broadcast, pc, loc,
                   broker, appended, ops>>

\* a worker that may end the iteration before it has reached every client
WorkerRUnlockEarly ==
    /\ worker.pc = "iter"
    /\ wsClientsMux' = RUnlock(wsClientsMux, Worker)
    /\ worker' = [worker EXCEPT !.pc = "recv", !.message = NoInfo, !.todo = {}]
    /\ UNCHANGED <<messages, messagesMutex, wsClients, broadcast, pc, loc,
                   conn, broker, appended, ops>>

\* a worker that keeps the read lock while it waits for the next event
WorkerRUnlockKeep ==
    /\ worker.pc = "iter"
    /\ worker.todo = {}
    /\ wsClientsMux' = wsClientsMux
    /\ worker' = [worker EXCEPT !.pc = "recv", !.message = NoInfo]
    /\ UNCHANGED <<messages, messagesMutex, wsClients, broadcast, pc, loc,
                   conn, broker, appended, ops>>

\* the range loop is over: RUnlock and wait for the next event
WorkerRUnlock ==
    /\ worker.pc = "iter"
    /\ worker.todo = {}
    /\ wsClientsMux' = RUnlock(wsClientsMux, Worker)
    /\ worker' = [worker EXCEPT !.pc = "recv", !.message = NoInfo]
    /\ UNCHANGED <<messages, messagesMutex, wsClients, broadcast, pc, loc,
                   conn, broker, appended, ops>>

\* ------------------------------------------------------------------------
\* Routing and the remaining handlers
\* ------------------------------------------------------------------------
\* the patterns RegisterRoutes registers, with their handlers
Routes ==
    ("/api/stats" :> "handleStats") @@
    ("/api/messages" :> "handleMessages") @@
    ("/api/messages/search" :> "handleSearchMessages") @@
    ("/api/messages/export/json" :> "handleExportJSON") @@
    ("/api/messages/export/csv" :> "handleExportCSV") @@
    ("/api/topics" :> "handleCreateTopic") @@
    ("/api/subscriptions" :> "handleCreateSubscription") @@
    ("/api/publish" :> "handlePublish") @@
    ("/api/replay" :> "handleReplay") @@
    ("/api/health" :> "handleHealth") @@
    ("/static/css/dashboard.css" :> "ServeDashboardCSS") @@
    ("/static/js/dashboard.js" :> "ServeDashboardJS") @@
    ("/" :> "handleIndex")

\* http.ServeMux: the handler of an exact pattern, else the one of "/"
ServeMux(path) == IF path \in DOMAIN Routes THEN Routes[path] ELSE Routes["/"]

\* the paths a client may ask a live-update connection on
RequestPaths == DOMAIN Routes \cup {"/ws", "/api/ws"}

\* a client asks for a live-update connection: the mux routes the request;
\* under HandleWebSocket the connection is upgraded, under any other handler
\* it gets that handler's plain response
RoutedConnect(c) ==
    /\ conn[c].st = "new"
    /\ ops > 0
    /\ ops' = ops - 1
    /\ \E path \in RequestPaths :
          conn' = [conn EXCEPT ![c].st =
                      IF ServeMux(path) = "HandleWebSocket" THEN "upgraded"
                                                            ELSE "served"]
    /\ UNCHANGED <<messages, messagesMutex, wsClients, wsClientsMux,
                   broadcast, pc, loc, worker, broker, appended>>

\* handleHealth: the status is written whatever the method
handleHealth(p) ==
    /\ pc[p] = "idle"
    /\ ops > 0
    /\ ops' = ops - 1
    /\ \E method \in Methods :
          loc' = [loc EXCEPT ![p] = [NoLoc EXCEPT
                                       !.kind = "health",
                                       !.method = method,
                                       !.resp = [code |-> 200, body |-> "ok"]]]
    /\ pc' = [pc EXCEPT ![p] = "respond"]
    /\ UNCHANGED <<messages, messagesMutex, wsClients, wsClientsMux,
                   broadcast, worker, conn, broker, appended>>

\* the longest topic ID handleCreateTopic accepts
MaxTopicIDLen == 255
LongTopicID == "long-topic-id"
LongSubscriptionID == "long-subscription-id"
\* len() of the identifiers the requests carry
StrLen(id) ==
    CASE id = "" -> 0
      [] id \in {LongTopicID, LongSubscriptionID} -> MaxTopicIDLen + 1
      [] OTHER -> 2

ContentTypes == {"application/json", "text/plain"}
\* request bodies: one that does not decode, and CreateTopicRequest values
CreateTopicBodies ==
    {[decodes |-> FALSE, TopicID |-> ""]}
    \cup [decodes : {TRUE}, TopicID : {"", "t1", "t3", LongTopicID}]

\* handleCreateTopic up to the call of the broker
handleCreateTopic(p) ==
    /\ pc[p] = "idle"
    /\ ops > 0
    /\ ops' = ops - 1
    /\ \E method \in Methods, ctype \in ContentTypes, body \in CreateTopicBodies :
          LET req == [NoLoc EXCEPT !.kind = "createTopic", !.method = method,
                                   !.ctype = ctype, !.body = body]
          IN IF method # "POST"
                THEN /\ loc' = [loc EXCEPT ![p] = [req EXCEPT !.resp = [code |-> 405]]]
                     /\ pc' = [pc EXCEPT ![p] = "respond"]
             ELSE IF ~body.decodes \/ body.TopicID = ""
                     \/ StrLen(body.TopicID) > MaxTopicIDLen
                THEN /\ loc' = [loc EXCEPT ![p] = [req EXCEPT !.resp = [code |-> 400]]]
                     /\ pc' = [pc EXCEPT ![p] = "respond"]
             ELSE /\ loc' = [loc EXCEPT ![p] = req]
                  /\ pc' = [pc EXCEPT ![p] = "ct_call"]
    /\ UNCHANGED <<messages, messagesMutex, wsClients, wsClientsMux,
                   broadcast, worker, conn, broker, appended>>

\* TopicAdminClient.CreateTopic: the topic is created, or the broker answers
\* with an error (always so when the topic exists) and the handler with 500
CreateTopicCall(p) ==
    /\ pc[p] = "ct_call"
    /\ LET id == loc[p].body.TopicID
           call == [op |-> "CreateTopic", id |-> id]
       IN \/ /\ id \notin (BrokerTopics \cup broker.created)
             /\ broker' = [broker EXCEPT !.created = @ \cup {id}]
             /\ loc' = [loc EXCEPT ![p].calls = Append(@, call),
                                   ![p].resp = [code |-> 200, topic |-> id]]
          \/ /\ broker' = broker
             /\ loc' = [loc EXCEPT ![p].calls = Append(@, call),
                                   ![p].resp = [code |-> 500]]
    /\ pc' = [pc EXCEPT ![p] = "respond"]
    /\ UNCHANGED <<messages, messagesMutex, wsClients, wsClientsMux,
                   broadcast, worker, conn, appended, ops>>

\* the longest subscription ID and the ack deadlines of
\* handleCreateSubscription
MaxSubscriptionIDLen == 255
DefaultAckDeadline == 10
MaxAckDeadline == 600
\* request bodies: one that does not decode, and CreateSubscriptionRequest
\* values
CreateSubscriptionBodies ==
    {[decodes |-> FALSE, SubscriptionID |-> "", TopicID |-> "",
      AckDeadlineSeconds |-> 0]}
    \cup [decodes : {TRUE},
          SubscriptionID : {"", "s1", "s3", LongSubscriptionID},
          TopicID : {"", "t1", "tx"},
          AckDeadlineSeconds : {0, 30, MaxAckDeadline + 1}]

\* handleCreateSubscription up to the call of the broker
handleCreateSubscription(p) ==
    /\ pc[p] = "idle"
    /\ ops > 0
    /\ ops' = ops - 1
    /\ \E method \in Methods, body \in CreateSubscriptionBodies :
          LET req == [NoLoc EXCEPT !.kind = "createSubscription",
                                   !.method = method, !.body = body]
              ack == IF body.AckDeadlineSeconds <= 0 THEN DefaultAckDeadline
                                                     ELSE body.AckDeadlineSeconds
          IN IF method # "POST"
                THEN /\ loc' = [loc EXCEPT ![p] = [req EXCEPT !.resp = [code |-> 405]]]
                     /\ pc' = [pc EXCEPT ![p] = "respond"]
             ELSE IF \/ ~body.decodes
                     \/ body.SubscriptionID = ""
                     \/ StrLen(body.SubscriptionID) > MaxSubscriptionIDLen
                     \/ body.TopicID = ""
                     \/ ack > MaxAckDeadline
                THEN /\ loc' = [loc EXCEPT ![p] = [req EXCEPT !.resp = [code |-> 400]]]
                     /\ pc' = [pc EXCEPT ![p] = "respond"]
             ELSE /\ loc' = [loc EXCEPT ![p] =
                               [req EXCEPT !.body.AckDeadlineSeconds = ack]]
                  /\ pc' = [pc EXCEPT ![p] = "cs_call"]
    /\ UNCHANGED <<messages, messagesMutex, wsClients, wsClientsMux,
                   broadcast, worker, conn, broker, appended>>

\* SubscriptionAdminClient.CreateSubscription: the subscription is created,
\* or the broker answers with an error (always so when the subscription
\* exists or the topic does not) and the handler with 500
CreateSubscriptionCall(p) ==
    /\ pc[p] = "cs_call"
    /\ LET b == loc[p].body
           call == [op |-> "CreateSubscription", id |-> b.SubscriptionID,
                    topic |-> b.TopicID, ack |-> b.AckDeadlineSeconds]
       IN \/ /\ b.SubscriptionID \notin (Receivers \cup broker.subs)
             /\ b.TopicID \in (BrokerTopics \cup broker.created)
             /\ broker' = [broker EXCEPT !.subs = @ \cup {b.SubscriptionID}]
             /\ loc' = [loc EXCEPT ![p].calls = Append(@, call),
                                   ![p].resp = [code |-> 200,
                                                subscription |-> b.SubscriptionID]]
          \/ /\ broker' = broker
             /\ loc' = [loc EXCEPT ![p].calls = Append(@, call),
                                   ![p].resp = [code |-> 500]]
    /\ pc' = [pc EXCEPT ![p] = "respond"]
    /\ UNCHANGED <<messages, messagesMutex, wsClients, wsClientsMux,
                   broadcast, worker, conn, appended, ops>>

\* ------------------------------------------------------------------------
\* Publisher.PublishToTopics
\* ------------------------------------------------------------------------
\* the topic lists PublishToTopics is called with
TopicLists ==
    {<<>>} \cup {<<t>> : t \in {"t1", "tx"}}
    \cup {<<t, u>> : t \in {"t1", "t2", "tx"}, u \in {"t1", "t2", "tx"}}

\* messageIDs[topicID] = msgID on a map kept as a set of (topic, ID) pairs
MapPut(m, k, v) == {e \in m : e[1] # k} \cup {<<k, v>>}
MapKeys(m) == {e[1] : e \in m}

\* PublishToTopics is called: messageIDs := make(map[string]string)
PublishToTopics(p) ==
    /\ pc[p] = "idle"
    /\ ops > 0
    /\ ops' = ops - 1
    /\ \E ts \in TopicLists :
          loc' = [loc EXCEPT ![p] = [NoLoc EXCEPT !.kind = "publishToTopics",
                                                 !.topicIDs = ts,
                                                 !.i = 1]]
    /\ pc' = [pc EXCEPT ![p] = "pt_loop"]
    /\ UNCHANGED <<messages, messagesMutex, wsClients, wsClientsMux,
                   broadcast, worker, conn, broker, appended>>

\* a loop that returns at the first topic whose publish fails
PublishToTopicsStepStopOnError(p) ==
    /\ pc[p] = "pt_loop"
    /\ loc[p].i <= Len(loc[p].topicIDs)
    /\ LET t == loc[p].topicIDs[loc[p].i]
       IN \/ /\ CanAccept(broker, t)
             /\ broker' = BrokerAccept(broker, t, MessageToPublish, {})
             /\ loc' = [loc EXCEPT
                          ![p].calls = Append(@, [topic |-> t, ok |-> TRUE]),
                          ![p].messageIDs = MapPut(@, t, BrokerID(broker.nextID)),
                          ![p].i = @ + 1]
          \/ /\ broker' = broker
             /\ loc' = [loc EXCEPT
                          ![p].calls = Append(@, [topic |-> t, ok |-> FALSE]),
                          ![p].i = Len(loc[p].topicIDs) + 1]
    /\ UNCHANGED <<messages, messagesMutex, wsClients, wsClientsMux,
                   broadcast, pc, worker, conn, appended, ops>>

\* one turn of the loop: PublishMessage for the next topic; a failure is
\* logged and the loop continues
PublishToTopicsStep(p) ==
    /\ pc[p] = "pt_loop"
    /\ loc[p].i <= Len(loc[p].topicIDs)
    /\ LET t == loc[p].topicIDs[loc[p].i]
       IN \/ /\ CanAccept(broker, t)
             /\ broker' = BrokerAccept(broker, t, MessageToPublish, {})
             /\ loc' = [loc EXCEPT
                          ![p].calls = Append(@, [topic |-> t, ok |-> TRUE]),
                          ![p].messageIDs = MapPut(@, t, BrokerID(broker.nextID)),
                          ![p].i = @ + 1]
          \/ /\ broker' = broker
             /\ loc' = [loc EXCEPT
                          ![p].calls = Append(@, [topic |-> t, ok |-> FALSE]),
                          ![p].i = @ + 1]
    /\ UNCHANGED <<messages, messagesMutex, wsClients, wsClientsMux,
                   broadcast, pc, worker, conn, appended, ops>>

\* after the loop: an error when the map is empty, else the map
PublishToTopicsReturn(p) ==
    /\ pc[p] = "pt_loop"
    /\ loc[p].i > Len(loc[p].topicIDs)
    /\ loc' = [loc EXCEPT ![p].resp =
                  IF loc[p].messageIDs = {}
                     THEN [code |-> 0, err |-> TRUE, messageIDs |-> {}]
                     ELSE [code |-> 0, err |-> FALSE,
                           messageIDs |-> loc[p].messageIDs]]
    /\ pc' = [pc EXCEPT ![p] = "respond"]
    /\ UNCHANGED <<messages, messagesMutex, wsClients, wsClientsMux,
                   broadcast, worker, conn, broker, appended, ops>>

\* ------------------------------------------------------------------------
\* Program start: main()
\* ------------------------------------------------------------------------
\* the attributes of the startup message
InitialAttributes == {<<"source", "emulator">>}

\* the calls setupTopicsAndSubscriptions makes for the pairs of the lists
SetupCalls(cfg) ==
    [k \in 1..(2 * Len(cfg.TopicIDs)) |->
        IF k % 2 = 1
           THEN [op |-> "CreateTopic", id |-> cfg.TopicIDs[(k + 1) \div 2]]
           ELSE [op |-> "CreateSubscription",
                 id |-> cfg.SubscriptionIDs[k \div 2],
                 topic |-> cfg.TopicIDs[k \div 2]]]

\* main: config.LoadFromEnv(); log.Fatal on error
MainLoadFromEnv(m) ==
    /\ pc[m] = "idle"
    /\ loc[m].kind = "none"
    /\ \E env \in Envs :
          LET r == LoadFromEnv(env)
          IN /\ loc' = [loc EXCEPT ![m] = [NoLoc EXCEPT !.kind = "main",
                                                       !.env = env,
                                                       !.cfg = r.cfg,
                                                       !.err = r.err]]
             /\ pc' = [pc EXCEPT ![m] = IF r.err THEN "fatal" ELSE "new_client"]
    /\ UNCHANGED <<messages, messagesMutex, wsClients, wsClientsMux,
                   broadcast, worker, conn, broker, appended, ops>>

\* main: pubsub.NewClient; log.Fatal on error
MainNewClient(m) ==
    /\ pc[m] = "new_client"
    /\ \/ /\ pc' = [pc EXCEPT ![m] = "setup"]
          /\ loc' = loc
       \/ /\ pc' = [pc EXCEPT ![m] = "fatal"]
          /\ loc' = [loc EXCEPT ![m].err = TRUE]
    /\ UNCHANGED <<messages, messagesMutex, wsClients, wsClientsMux,
                   broadcast, worker, conn, broker, appended, ops>>

\* main: setupTopicsAndSubscriptions (a failed create is only logged), then
\* dashboard.New and pubsub.NewPublisher
MainSetup(m) ==
    /\ pc[m] = "setup"
    /\ IF Len(loc[m].cfg.TopicIDs) # Len(loc[m].cfg.SubscriptionIDs)
          THEN /\ pc' = [pc EXCEPT ![m] = "fatal"]
               /\ loc' = [loc EXCEPT ![m].err = TRUE]
          ELSE /\ pc' = [pc EXCEPT ![m] = "init_pub"]
               /\ loc' = [loc EXCEPT ![m].calls = SetupCalls(loc[m].cfg),
                                     ![m].i = 1]
    /\ UNCHANGED <<messages, messagesMutex, wsClients, wsClientsMux,
                   broadcast, worker, conn, broker, appended, ops>>

\* publishInitialMessages: the loop over cfg.TopicIDs; a publish that fails
\* is logged and skipped, one that succeeds is recorded with AddMessage.
\* Deliveries begin with startSubscriptions and are not part of the start.
MainPublishInitial(m) ==
    /\ pc[m] = "init_pub"
    /\ IF loc[m].i > Len(loc[m].cfg.TopicIDs)
          THEN /\ pc' = [pc EXCEPT ![m] = "subscribe"]
               /\ loc' = loc
               /\ broker' = broker
          ELSE \/ /\ broker.nextID <= MaxPublish
                  /\ broker' = [broker EXCEPT !.nextID = @ + 1, !.clock = @ + 2]
                  /\ loc' = [loc EXCEPT
                               ![m].attempts = @ + 1,
                               ![m].topic = loc[m].cfg.TopicIDs[loc[m].i],
                               ![m].msg = [ID |-> BrokerID(broker.nextID),
                                           Data |-> loc[m].cfg.MessageToPublish,
                                           Attributes |-> InitialAttributes,
                                           PublishTime |-> broker.clock + 1],
                               ![m].i = @ + 1]
                  /\ pc' = [pc EXCEPT ![m] = "am_lock"]
               \/ /\ broker' = broker
                  /\ loc' = [loc EXCEPT ![m].attempts = @ + 1, ![m].i = @ + 1]
                  /\ pc' = pc
    /\ UNCHANGED <<messages, messagesMutex, wsClients, wsClientsMux,
                   broadcast, worker, conn, appended, ops>>

\* main: pubsub.NewSubscriber and startSubscriptions
MainStartSubscriptions(m) ==
    /\ pc[m] = "subscribe"
    /\ pc' = [pc EXCEPT ![m] = "start_server"]
    /\ UNCHANGED <<messages, messagesMutex, wsClients, wsClientsMux,
                   broadcast, loc, worker, conn, broker, appended, ops>>

\* main: server.New with cfg.DashboardPort and srv.Start(): the HTTP server
\* listens and serves, or ListenAndServe fails and main ends with log.Fatal
MainStartServer(m) ==
    /\ pc[m] = "start_server"
    /\ \/ /\ pc' = [pc EXCEPT ![m] = "serving"]
          /\ loc' = loc
       \/ /\ pc' = [pc EXCEPT ![m] = "fatal"]
          /\ loc' = [loc EXCEPT ![m].err = TRUE]
    /\ UNCHANGED <<messages, messagesMutex, wsClients, wsClientsMux,
                   broadcast, worker, conn, broker, appended, ops>>

\* ------------------------------------------------------------------------
\* The system, in the parts the properties are checked on
\* ------------------------------------------------------------------------
\* the AddMessage calls of every goroutine
AddMessages ==
    \/ \E p \in Procs : AddMessageLock(p)
    \/ \E p \in Procs : AddMessageStore(p)
    \/ \E p \in Procs : AddMessageSend(p)

\* the subscription callbacks
Deliveries ==
    \/ \E s \in Receivers : Receive(s)
    \/ \E s \in Receivers : Ack(s)

\* the worker while no viewer is registered
Drain ==
    \/ WorkerRecv
    \/ WorkerRUnlock

\* the store under concurrent deliveries and snapshots
NextStore ==
    \/ AddMessages
    \/ Deliveries
    \/ Drain
    \/ ExternalPublish
    \/ \E p \in Handlers : GetMessages(p)
    \/ \E p \in Handlers : SnapshotRLock(p)
    \/ \E p \in Handlers : SnapshotRUnlock(p)
    \/ \E p \in Handlers : Respond(p)

InitStore == InitWith(StoreOps)
SpecStore == InitStore /\ [][NextStore]_vars

\* dashboard publish, replay and lookup by ID with the deliveries they cause
NextReplay ==
    \/ AddMessages
    \/ Deliveries
    \/ Drain
    \/ \E p \in Handlers : handlePublish(p)
    \/ \E p \in Handlers : PublishCall(p)
    \/ \E p \in Handlers : handleReplay(p)
    \/ \E p \in Handlers : ReplayLookup(p)
    \/ \E p \in Handlers : ReplayRUnlock(p)
    \/ \E p \in Handlers : GetMessageByID(p)
    \/ \E p \in Handlers : ByIDLookup(p)
    \/ \E p \in Handlers : ByIDRUnlock(p)
    \/ \E p \in Handlers : Respond(p)

InitReplay == InitWith(ReplayOps)
SpecReplay == InitReplay /\ [][NextReplay]_vars

\* the read-facing handlers next to the store's writers
NextReads ==
    \/ AddMessages
    \/ Deliveries
    \/ Drain
    \/ ExternalPublish
    \/ \E p \in Handlers : handleMessages(p)
    \/ \E p \in Handlers : handleExportJSON(p)
    \/ \E p \in Handlers : handleExportCSV(p)
    \/ \E p \in Handlers : SnapshotRLock(p)
    \/ \E p \in Handlers : SnapshotRUnlock(p)
    \/ \E p \in Handlers : GetMessageByID(p)
    \/ \E p \in Handlers : ByIDLookup(p)
    \/ \E p \in Handlers : ByIDRUnlock(p)
    \/ \E p \in Handlers : handleReplay(p)
    \/ \E p \in Handlers : ReplayLookup(p)
    \/ \E p \in Handlers : ReplayRUnlock(p)
    \/ \E p \in Handlers : PublishCall(p)
    \/ \E p \in Handlers : handleSearchMessages(p)
    \/ \E p \in Handlers : SearchRLock(p)
    \/ \E p \in Handlers : SearchWrite(p)
    \/ \E p \in Handlers : handleStats(p)
    \/ \E p \in Handlers : StatsRLock(p)
    \/ \E p \in Handlers : StatsRUnlock(p)
    \/ \E p \in Handlers : Respond(p)

InitReads == InitWith(ReadOps)
SpecReads == InitReads /\ [][NextReads]_vars

\* statistics requests next to the store's writers
NextStats ==
    \/ AddMessages
    \/ Deliveries
    \/ Drain
    \/ ExternalPublish
    \/ \E p \in Handlers : handleStats(p)
    \/ \E p \in Handlers : StatsRLock(p)
    \/ \E p \in Handlers : StatsRUnlock(p)
    \/ \E p \in Handlers : Respond(p)

InitStats == InitWith(StatsOps)
SpecStats == InitStats /\ [][NextStats]_vars

\* the broadcast queue, its worker and the viewers next to the store's writers
NextBroadcast ==
    \/ AddMessages
    \/ Deliveries
    \/ ExternalPublish
    \/ \E c \in Conns : Upgrade(c)
    \/ \E c \in Conns : RegisterWebSocketClient(c)
    \/ \E c \in Conns : ReadError(c)
    \/ \E c \in Conns : UnregisterWebSocketClient(c)
    \/ \E c \in Conns : UnregisterClose(c)
    \/ WorkerRecv
    \/ \E c \in Conns : WorkerWrite(c)
    \/ WorkerWriteDone
    \/ WorkerRUnlock

InitBroadcast == InitWith(BroadcastOps)
SpecBroadcast == InitBroadcast /\ [][NextBroadcast]_vars

\* writers and readers of the store, the queue, the worker and the viewers
NextFanout ==
    \/ NextBroadcast
    \/ \E p \in Handlers : handleMessages(p)
    \/ \E p \in Handlers : SnapshotRLock(p)
    \/ \E p \in Handlers : SnapshotRUnlock(p)
    \/ \E p \in Handlers : Respond(p)

InitFanout == InitWith(FanoutOps)
SpecFanout == InitFanout /\ [][NextFanout]_vars

\* every read operation next to the deliveries, the viewers and the worker
NextReadOnly ==
    \/ AddMessages
    \/ Deliveries
    \/ ExternalPublish
    \/ \E c \in Conns : Upgrade(c)
    \/ \E c \in Conns : RegisterWebSocketClient(c)
    \/ WorkerRecv
    \/ \E c \in Conns : WorkerWrite(c)
    \/ WorkerWriteDone
    \/ WorkerRUnlock
    \/ \E p \in Handlers : handleMessages(p)
    \/ \E p \in Handlers : handleExportJSON(p)
    \/ \E p \in Handlers : handleExportCSV(p)
    \/ \E p \in Handlers : GetMessages(p)
    \/ \E p \in Handlers : SnapshotRLock(p)
    \/ \E p \in Handlers : SnapshotRUnlock(p)
    \/ \E p \in Handlers : GetMessageByID(p)
    \/ \E p \in Handlers : ByIDLookup(p)
    \/ \E p \in Handlers : ByIDRUnlock(p)
    \/ \E p \in Handlers : handleSearchMessages(p)
    \/ \E p \in Handlers : SearchRLock(p)
    \/ \E p \in Handlers : SearchWrite(p)
    \/ \E p \in Handlers : handleStats(p)
    \/ \E p \in Handlers : StatsRLock(p)
    \/ \E p \in Handlers : StatsRUnlock(p)
    \/ \E p \in Handlers : handleHealth(p)
    \/ \E p \in Handlers : Respond(p)

InitReadOnly == InitWith(ReadOnlyOps)
SpecReadOnly == InitReadOnly /\ [][NextReadOnly]_vars

\* the fan-out with a worker that is scheduled and viewer writes that return
FairWorker ==
    /\ WF_vars(WorkerRecv)
    /\ WF_vars(\E c \in Conns : WorkerWrite(c))
    /\ WF_vars(WorkerWriteDone)
    /\ WF_vars(WorkerRUnlock)

InitWorker == InitWith(WorkerOps)
SpecWorker == InitWorker /\ [][NextBroadcast]_vars /\ FairWorker

\* the entries a store under search may hold
SearchEntries ==
    {[ID |-> <<"m", "1">>, Data |-> <<"a">>, Attributes |-> {},
      PublishTime |-> 1, Topic |-> "t1", Received |-> 1],
     [ID |-> <<"M", "1">>, Data |-> <<"A", "b">>, Attributes |-> {<<"k", "v">>},
      PublishTime |-> 1, Topic |-> "t2", Received |-> 1],
     [ID |-> <<"m", "2">>, Data |-> <<"b", "a">>, Attributes |-> {},
      PublishTime |-> 1, Topic |-> "t1", Received |-> 1],
     [ID |-> <<"a", "b">>, Data |-> <<"z">>, Attributes |-> {},
      PublishTime |-> 1, Topic |-> "t2", Received |-> 1]}

\* every store of at most maxMessages such entries
SearchStores == UNION {[1..n -> SearchEntries] : n \in 0..maxMessages}

\* search requests on a store filled by earlier AddMessage calls
NextSearch ==
    \/ \E p \in Handlers : handleSearchMessages(p)
    \/ \E p \in Handlers : SearchRLock(p)
    \/ \E p \in Handlers : SearchWrite(p)
    \/ \E p \in Handlers : Respond(p)

InitSearch == \E store \in SearchStores : InitFrom(store, SearchOps)
SpecSearch == InitSearch /\ [][NextSearch]_vars

\* two callers of GetMessages next to the read handlers and the deliveries
NextSnapshots ==
    \/ AddMessages
    \/ Deliveries
    \/ ExternalPublish
    \/ \E p \in Callers : GetMessages(p)
    \/ \E p \in Callers \cup Handlers : SnapshotRLock(p)
    \/ \E p \in Callers \cup Handlers : SnapshotRUnlock(p)
    \/ \E p \in Handlers : handleExportJSON(p)
    \/ \E p \in Handlers : GetMessageByID(p)
    \/ \E p \in Handlers : ByIDLookup(p)
    \/ \E p \in Handlers : ByIDRUnlock(p)
    \/ \E p \in Handlers : handleSearchMessages(p)
    \/ \E p \in Handlers : SearchRLock(p)
    \/ \E p \in Handlers : SearchWrite(p)
    \/ \E p \in Handlers : handleStats(p)
    \/ \E p \in Handlers : StatsRLock(p)
    \/ \E p \in Handlers : StatsRUnlock(p)
    \/ \E p \in Handlers : Respond(p)

InitSnapshots == InitWith(SnapshotOps)
SpecSnapshots == InitSnapshots /\ [][NextSnapshots]_vars

\* the start of the program
NextMain ==
    \/ \E m \in Mains : MainLoadFromEnv(m)
    \/ \E m \in Mains : MainNewClient(m)
    \/ \E m \in Mains : MainSetup(m)
    \/ \E m \in Mains : MainPublishInitial(m)
    \/ AddMessages
    \/ Drain
    \/ \E m \in Mains : MainStartSubscriptions(m)
    \/ \E m \in Mains : MainStartServer(m)

InitMain == InitWith(0)
SpecMain == InitMain /\ [][NextMain]_vars

\* requests to every endpoint of the dashboard and connection requests
NextHTTP ==
    \/ AddMessages
    \/ Drain
    \/ \E p \in Handlers : handleHealth(p)
    \/ \E p \in Handlers : handleCreateTopic(p)
    \/ \E p \in Handlers : CreateTopicCall(p)
    \/ \E p \in Handlers : handleCreateSubscription(p)
    \/ \E p \in Handlers : CreateSubscriptionCall(p)
    \/ \E p \in Handlers : handlePublish(p)
    \/ \E p \in Handlers : handleReplay(p)
    \/ \E p \in Handlers : ReplayLookup(p)
    \/ \E p \in Handlers : ReplayRUnlock(p)
    \/ \E p \in Handlers : PublishCall(p)
    \/ \E p \in Handlers : handleMessages(p)
    \/ \E p \in Handlers : handleExportJSON(p)
    \/ \E p \in Handlers : handleExportCSV(p)
    \/ \E p \in Handlers : SnapshotRLock(p)
    \/ \E p \in Handlers : SnapshotRUnlock(p)
    \/ \E p \in Handlers : handleSearchMessages(p)
    \/ \E p \in Handlers : SearchRLock(p)
    \/ \E p \in Handlers : SearchWrite(p)
    \/ \E p \in Handlers : handleStats(p)
    \/ \E p \in Handlers : StatsRLock(p)
    \/ \E p \in Handlers : StatsRUnlock(p)
    \/ \E p \in Handlers : Respond(p)
    \/ \E c \in Conns : RoutedConnect(c)

InitHTTP == InitWith(HTTPOps)
SpecHTTP == InitHTTP /\ [][NextHTTP]_vars

\* concurrent calls of PublishToTopics next to other publishers
NextPublisher ==
    \/ ExternalPublish
    \/ \E p \in Callers : PublishToTopics(p)
    \/ \E p \in Callers : PublishToTopicsStep(p)
    \/ \E p \in Callers : PublishToTopicsReturn(p)
    \/ \E p \in Callers : Respond(p)

InitPublisher == InitWith(PublisherOps)
SpecPublisher == InitPublisher /\ [][NextPublisher]_vars

\* ------------------------------------------------------------------------
\* Properties of the message store
\* ------------------------------------------------------------------------
\* C1: in every reachable state, whatever the interleaving of the AddMessage
\* calls of dashboard publish, replay and subscription delivery, the store
\* holds at most maxMessages entries.
C1_StoreBounded == Len(messages) <= maxMessages

\* C1 witness: the store is full and entries have already been evicted
C1_Witness ==
    /\ Len(messages) = maxMessages
    /\ Len(appended) > maxMessages
    /\ \E i \in 1..Len(appended) : appended[i].ID # appended[1].ID

\* C2: once more than maxMessages entries have been appended, the store
\* holds exactly maxMessages entries and they are the last maxMessages
\* appended, in the order of their appends.
C2_BoundedRetention ==
    Len(appended) > maxMessages =>
        /\ Len(messages) = maxMessages
        /\ messages = SubSeq(appended, Len(appended) - maxMessages + 1,
                             Len(appended))

\* C2 witness: more appends than the capacity, all AddMessage calls returned
C2_Witness ==
    /\ Len(appended) > maxMessages
    /\ \A p \in Procs : pc[p] = "idle"

\* C4: the copy GetMessages returns is the store as it was at the instant of
\* the copy: the last maxMessages of the entries appended up to then, whole
\* and in order. It holds every entry whose AddMessage had stored before the
\* copy (unless evicted by then), none stored after it, and it stays the same
\* while later appends and evictions change the store.
C4_SnapshotIsolation ==
    \A p \in Handlers :
        (loc[p].kind = "getMessages" /\ pc[p] \in {"cp_runlock", "respond"}) =>
            /\ loc[p].snap = LastN(SubSeq(appended, 1, loc[p].at), maxMessages)
            /\ Len(loc[p].snap) <= maxMessages

\* C4 witness: a returned snapshot of a non-empty store, after which the
\* store has gained an entry and evicted one the snapshot holds
C4_Witness ==
    \E p \in Handlers :
        /\ loc[p].kind = "getMessages"
        /\ pc[p] = "respond"
        /\ loc[p].at > 0
        /\ Len(appended) > loc[p].at
        /\ Len(appended) > maxMessages
        /\ loc[p].snap # messages

\* C5: concurrent AddMessage calls are serialised without a lost update:
\* while no more than maxMessages entries have been appended, the store is
\* exactly the sequence of the entries appended, each present once.
C5_NoLostUpdate ==
    Len(appended) <= maxMessages =>
        /\ Len(messages) = Len(appended)
        /\ \A i \in 1..Len(appended) :
              Cardinality({j \in 1..Len(messages) : messages[j] = appended[i]}) = 1

\* C5 witness: two goroutines are inside AddMessage at the same time on a
\* store that was empty: one has stored and holds the lock, one waits for it
C5_Witness ==
    \E p \in Procs, q \in Procs :
        /\ p # q
        /\ pc[p] = "am_send"
        /\ pc[q] = "am_lock"
        /\ Len(appended) = 1
        /\ maxMessages >= 2

\* ------------------------------------------------------------------------
\* Properties of the broadcast path
\* ------------------------------------------------------------------------
\* the event of loc[p].info is in the queue, with the worker or at a viewer
EventInFlight(p) ==
    LET ev == MarshalEvent(loc[p].info)
    IN \/ \E i \in 1..Len(broadcast) : broadcast[i] = ev
       \/ worker.message = ev
       \/ \E c \in Conns : \E i \in 1..Len(conn[c].got) : conn[c].got[i] = ev

\* C3: AddMessage never waits for the broadcast worker or a viewer. A call
\* that holds the store lock can always take its next step, whatever the
\* worker and the queue are doing; a call that waits for the store lock waits
\* only for another AddMessage call; and a call that found the queue full has
\* returned with its message stored and its event dropped.
C3_AddMessageNeverWaits ==
    \A p \in Procs :
        /\ pc[p] \in {"am_store", "am_send"} => ENABLED AddMessage(p)
        /\ pc[p] = "am_lock" =>
              \/ ENABLED AddMessage(p)
              \/ \E q \in Procs \ {p} :
                    /\ messagesMutex.w = q
                    /\ pc[q] \in {"am_store", "am_send"}
        /\ (pc[p] \in {"ack", "respond"} /\ loc[p].at > 0 /\ ~loc[p].sent) =>
              /\ appended[loc[p].at] = loc[p].info
              /\ ~EventInFlight(p)

\* C3 witness: the worker is inside a write to a viewer, the queue is full,
\* and an AddMessage call has returned after dropping its event
C3_Witness ==
    /\ worker.pc = "write"
    /\ Len(broadcast) = BroadcastCap
    /\ \E p \in Procs :
          /\ pc[p] = "ack"
          /\ loc[p].at > 0
          /\ ~loc[p].sent
          /\ \E i \in 1..Len(messages) : messages[i] = loc[p].info

\* ------------------------------------------------------------------------
\* Properties of the read-facing handlers
\* ------------------------------------------------------------------------
\* the handler is encoding or writing its response
WritingResponse(p) == pc[p] \in {"respond", "sr_write"}

\* C6: every read-facing handler has released the store's read lock before it
\* serialises or writes its response, so no AddMessage call waits for the
\* store lock because of a response being written.
C6_ReadLockReleasedBeforeWrite ==
    \A p \in Handlers :
        WritingResponse(p) =>
            /\ p \notin messagesMutex.r
            /\ \A q \in Procs : pc[q] = "am_lock" => messagesMutex.r = {}

\* s occurs in t as a contiguous run of characters
IsSubstring(s, t) ==
    \/ s = <<>>
    \/ \E i \in 1..Len(t) : \E j \in i..Len(t) : SubSeq(t, i, j) = s

\* the messages a search for (q, t) is to select
Selected(m, q, t) ==
    /\ (t = "" \/ m.Topic = t)
    /\ \/ q = EmptyStr
       \/ IsSubstring(ToLower(q), ToLower(m.Data))
       \/ IsSubstring(ToLower(q), ToLower(m.ID))

\* C7: the result of a search for term q and topic t is the subsequence, in
\* storage order, of the stored messages whose topic is t (when t is given)
\* and whose lower-cased payload or ID contains lower-cased q (when q is
\* given); with neither given it is the whole store.
C7_SearchResult ==
    \A p \in Handlers :
        (loc[p].kind = "search" /\ pc[p] = "sr_write") =>
            /\ loc[p].resp.code = 200
            /\ loc[p].resp.body =
                  SelectSeq(messages,
                            LAMBDA m : Selected(m, loc[p].rawq, loc[p].topic))
            /\ (loc[p].rawq = EmptyStr /\ loc[p].topic = "") =>
                  loc[p].resp.body = messages

\* C7 witness: a search with an upper-case term and a topic filter that
\* selects some, but not all, of a full store
C7_Witness ==
    \E p \in Handlers :
        /\ loc[p].kind = "search"
        /\ pc[p] = "sr_write"
        /\ loc[p].rawq # EmptyStr
        /\ loc[p].rawq # loc[p].q
        /\ loc[p].topic # ""
        /\ Len(messages) = maxMessages
        /\ Len(loc[p].resp.body) > 0
        /\ Len(loc[p].resp.body) < Len(messages)

\* ------------------------------------------------------------------------
\* Properties of replay and lookup by ID
\* ------------------------------------------------------------------------
\* the replay request of p has published and not yet written its response
ReplayPublished(p) ==
    /\ loc[p].kind = "replay"
    /\ pc[p] \in {"am_lock", "am_store", "am_send", "respond"}
    /\ loc[p].resp.code = 200

\* C8: a replay of a known ID answers with a new ID that differs from the
\* original and with the original ID, and its AddMessage call adds one entry
\* to the store that has the new ID and the topic, payload and attributes of
\* the message replayed.
C8_ReplayKnown ==
    \A p \in Handlers :
        /\ ReplayPublished(p) =>
              /\ loc[p].found
              /\ loc[p].attempts = 1
              /\ loc[p].orig.ID = loc[p].id
              /\ loc[p].resp.originalId = loc[p].id
              /\ loc[p].resp.messageId # loc[p].resp.originalId
              /\ loc[p].resp.messageId = loc[p].msg.ID
        /\ (ReplayPublished(p) /\ pc[p] \in {"am_send", "respond"}) =>
              /\ loc[p].at > 0
              /\ appended[loc[p].at].ID = loc[p].resp.messageId
              /\ appended[loc[p].at].Topic = loc[p].orig.Topic
              /\ appended[loc[p].at].Data = loc[p].orig.Data
              /\ appended[loc[p].at].Attributes = loc[p].orig.Attributes
        /\ (ReplayPublished(p) /\ pc[p] = "am_send") =>
              /\ loc[p].at = Len(appended)
              /\ messages = LastN(appended, maxMessages)
              /\ messages[Len(messages)] = appended[loc[p].at]

\* C8 witness: a replay of a message of the second topic has stored its new
\* entry and is about to answer
C8_Witness ==
    \E p \in Handlers :
        /\ ReplayPublished(p)
        /\ pc[p] = "respond"
        /\ loc[p].orig.Topic = TopicIDs[2]
        /\ loc[p].orig.Data # EmptyStr
        /\ loc[p].orig.Attributes # {}
        /\ loc[p].at > 1

\* the request of p has looked its ID up and found no entry
LookupMissed(p) ==
    /\ loc[p].kind \in {"replay", "byID"}
    /\ loc[p].id # EmptyStr
    /\ pc[p] = "respond"
    /\ ~loc[p].found

\* C9: a replay or lookup of an ID that no stored message has ends as not
\* found (404, nil) and only then: the lookup finds an entry exactly when the
\* store holds one with that ID, and a request whose lookup found none has
\* made no publish attempt, appended nothing and enqueued nothing.
C9_UnknownID ==
    \A p \in Handlers :
        /\ (loc[p].kind \in {"replay", "byID"}
              /\ pc[p] \in {"rp_runlock", "id_runlock"}) =>
              (loc[p].found <=>
                  \E i \in 1..Len(messages) : messages[i].ID = loc[p].id)
        /\ LookupMissed(p) =>
              /\ loc[p].resp = [code |-> 404]
              /\ loc[p].attempts = 0
              /\ loc[p].at = 0
              /\ ~loc[p].sent
              /\ loc[p].info = NoInfo
        /\ (loc[p].kind \in {"replay", "byID"} /\ pc[p] = "respond"
              /\ loc[p].found) => loc[p].resp.code # 404

\* C9 witness: a replay of an ID that is not in a non-empty store is about
\* to answer
C9_Witness ==
    \E p \in Handlers :
        /\ LookupMissed(p)
        /\ loc[p].kind = "replay"
        /\ Len(messages) > 0
        /\ \A i \in 1..Len(messages) : messages[i].ID # loc[p].id

\* the replay request of p called the broker and the broker rejected
ReplayRejected(p) ==
    /\ loc[p].kind = "replay"
    /\ pc[p] = "respond"
    /\ loc[p].attempts > 0
    /\ loc[p].msg.ID = EmptyStr

\* C10: when the broker rejects the publish of a replay, the request ends
\* with 500, which only a rejected publish produces (a missing ID gives 404),
\* after exactly one publish attempt, with nothing appended to the store and
\* no event enqueued.
C10_ReplayPublishFails ==
    \A p \in Handlers :
        /\ ReplayRejected(p) =>
              /\ loc[p].resp = [code |-> 500]
              /\ loc[p].found
              /\ loc[p].attempts = 1
              /\ loc[p].at = 0
              /\ ~loc[p].sent
              /\ loc[p].info = NoInfo
        /\ (loc[p].kind = "replay" /\ pc[p] = "respond"
              /\ loc[p].resp.code = 500) => ReplayRejected(p)
        /\ loc[p].kind = "replay" => loc[p].attempts <= 1

\* C10 witness: a replay found its message, the broker rejected the publish
\* and the request is about to answer
C10_Witness ==
    \E p \in Handlers :
        /\ ReplayRejected(p)
        /\ loc[p].found
        /\ loc[p].orig.ID = loc[p].id
        /\ Len(messages) > 0

\* ------------------------------------------------------------------------
\* Properties of the statistics
\* ------------------------------------------------------------------------
\* GetStats of p has read the store (and may have returned since)
StatsTaken(p) ==
    /\ loc[p].kind = "stats"
    /\ pc[p] \in {"st_runlock", "respond"}
    /\ loc[p].resp.code # 405

\* the store as it was when p read it: the last maxMessages of the entries
\* appended up to then
StoreAt(p) == LastN(SubSeq(appended, 1, loc[p].at), maxMessages)

\* C11: GetStats reports no LastMessageTime exactly when the store is empty
\* at the moment of the read; on an empty store both counts are 0, on a
\* non-empty one LastMessageTime is the Received time of the last entry.
C11_LastMessageTime ==
    \A p \in Handlers :
        StatsTaken(p) =>
            /\ ~loc[p].stats.HasLast <=> StoreAt(p) = <<>>
            /\ StoreAt(p) = <<>> =>
                  /\ loc[p].stats.MessageCount = 0
                  /\ loc[p].stats.TotalMessages = 0
            /\ StoreAt(p) # <<>> =>
                  loc[p].stats.LastMessageTime =
                      StoreAt(p)[Len(StoreAt(p))].Received

\* C11 witness: statistics of an empty store returned after the store has
\* gained an entry (the other case, a non-empty store, is C12's witness)
C11_Witness ==
    \E p \in Handlers :
        /\ StatsTaken(p)
        /\ pc[p] = "respond"
        /\ loc[p].at = 0
        /\ ~loc[p].stats.HasLast
        /\ Len(messages) > 0

\* C12: the statistics describe one state of the store: both counts are its
\* length, RecentMessages is its last min(RecentWindow, length) entries in
\* storage order, and LastMessageTime belongs to the last of them.
C12_StatsConsistent ==
    \A p \in Handlers :
        StatsTaken(p) =>
            LET S == StoreAt(p)
                R == loc[p].stats.RecentMessages
            IN /\ loc[p].stats.MessageCount = Len(S)
               /\ loc[p].stats.TotalMessages = Len(S)
               /\ Len(R) = IF Len(S) < RecentWindow THEN Len(S) ELSE RecentWindow
               /\ R = SubSeq(S, Len(S) - Len(R) + 1, Len(S))
               /\ Len(S) > 0 =>
                     /\ loc[p].stats.HasLast
                     /\ loc[p].stats.LastMessageTime = R[Len(R)].Received

\* C12 witness: statistics of a store longer than the window, returned after
\* a later append has changed the store
C12_Witness ==
    \E p \in Handlers :
        /\ StatsTaken(p)
        /\ pc[p] = "respond"
        /\ loc[p].stats.MessageCount > RecentWindow
        /\ Len(appended) > loc[p].at
        /\ messages # loc[p].snap

\* C13: when the listing of topics or of subscriptions fails, the statistics
\* request ends as a server error, not with a statistics snapshot.
C13_ListingErrorPropagates ==
    \A p \in Handlers :
        (loc[p].kind = "stats" /\ pc[p] = "respond" /\ loc[p].err) =>
            loc[p].resp.code = 500

\* ------------------------------------------------------------------------
\* Properties of the fan-out
\* ------------------------------------------------------------------------
\* the place of an event's message in the order of the appends
AppendIndex(ev) ==
    CHOOSE k \in 0..Len(appended) :
        IF \E i \in 1..Len(appended) : appended[i] = ev.message
           THEN k > 0 /\ appended[k] = ev.message
           ELSE k = 0

\* C14: a viewer whose write failed has been closed and is out of the
\* registry from that step on, within the same fan-out iteration; the worker
\* does not write to it again, neither the failed event nor a later one; and
\* every other registered viewer of the iteration is still written to.
C14_FailedWriteRemoves ==
    /\ \A c \in Conns :
          conn[c].failedOn # NoInfo =>
              /\ c \notin wsClients
              /\ c \notin worker.todo
              /\ worker.cur # c
              /\ conn[c].closes >= 1
              /\ \A i \in 1..Len(conn[c].got) :
                    /\ AppendIndex(conn[c].got[i]) > 0
                    /\ AppendIndex(conn[c].got[i]) < AppendIndex(conn[c].failedOn)
    /\ worker.pc \in {"iter", "write"} =>
          \A c \in wsClients :
              \/ c \in worker.todo
              \/ worker.cur = c
              \/ /\ conn[c].got # <<>>
                 /\ conn[c].got[Len(conn[c].got)] = worker.message

\* C14 witness: the write of an event to one viewer failed, another viewer
\* received that event and a later one
C14_Witness ==
    \E c \in Conns, d \in Conns :
        /\ c # d
        /\ conn[c].failedOn # NoInfo
        /\ Len(conn[d].got) >= 2
        /\ conn[d].got[1] = conn[c].failedOn

\* ------------------------------------------------------------------------
\* Properties of repeated snapshots
\* ------------------------------------------------------------------------
\* GetMessages has made its copy for p (and may have returned it)
HasSnapshot(p) ==
    /\ loc[p].kind = "getMessages"
    /\ pc[p] \in {"cp_runlock", "respond"}

\* C15: two GetMessages calls with no AddMessage between their copies return
\* equal sequences, whatever search, stats, lookup or export requests ran in
\* between; and while no AddMessage has stored since a copy, the store still
\* equals that copy.
C15_RepeatableRead ==
    \A p \in Callers :
        HasSnapshot(p) =>
            /\ \A q \in Callers :
                  (HasSnapshot(q) /\ loc[q].at = loc[p].at) =>
                      loc[q].snap = loc[p].snap
            /\ loc[p].at = Len(appended) => CopyMessages(messages) = loc[p].snap

\* C15 witness: one copy of a non-empty store has been returned, a second
\* call is making its copy of the same store, and a search, stats or lookup
\* request is reading the store at that time
C15_Witness ==
    \E p \in Callers, q \in Callers :
        /\ p # q
        /\ HasSnapshot(p)
        /\ pc[p] = "respond"
        /\ HasSnapshot(q)
        /\ pc[q] = "cp_runlock"
        /\ loc[p].at = loc[q].at
        /\ loc[p].snap # <<>>
        /\ \E h \in Handlers : pc[h] \in {"sr_write", "st_runlock", "id_runlock"}

\* ------------------------------------------------------------------------
\* Properties of the subscription delivery
\* ------------------------------------------------------------------------
\* C16: a message delivered by the subscription bound to topic T is recorded
\* in the store under topic T, for every configured pair.
C16_DeliveryTopic ==
    \A s \in Receivers :
        (loc[s].kind = "deliver" /\ pc[s] \in {"am_send", "ack"}) =>
            appended[loc[s].at].Topic = TopicOfSub(s)

\* ------------------------------------------------------------------------
\* Properties of the program start
\* ------------------------------------------------------------------------
\* C17: the dashboard HTTP server is started only when a dashboard port is
\* configured; with DASHBOARD_PORT unset the program does not start it.
C17_ServerOnlyWhenEnabled ==
    \A m \in Mains :
        pc[m] = "serving" => IsDashboardEnabled(loc[m].cfg)

\* ------------------------------------------------------------------------
\* Properties of the routes and of the remaining handlers
\* ------------------------------------------------------------------------
\* a connection request of c that ends with the connection upgraded
OpenLiveUpdates(c) == RoutedConnect(c) /\ conn'[c].st = "upgraded"

\* C18: through the routes the server registers a client can open a
\* live-update connection: a client that has not connected yet has a request
\* that is routed to HandleWebSocket and upgraded (from where it is
\* registered and notified of later appends).
C18_ViewerCanConnect ==
    \A c \in Conns :
        (conn[c].st = "new" /\ ops > 0) => ENABLED OpenLiveUpdates(c)

\* C19: the health endpoint answers a request whose method is not GET with
\* 405 Method Not Allowed.
C19_HealthMethod ==
    \A p \in Handlers :
        (loc[p].kind = "health" /\ pc[p] = "respond" /\ loc[p].method # "GET") =>
            loc[p].resp.code = 405

\* C20: the create-topic endpoint answers a POST whose Content-Type is not
\* application/json with 415 and makes no CreateTopic call, also when the
\* body is a well-formed request with a valid topic ID.
C20_CreateTopicContentType ==
    \A p \in Handlers :
        (/\ loc[p].kind = "createTopic"
         /\ pc[p] = "respond"
         /\ loc[p].method = "POST"
         /\ loc[p].ctype # "application/json") =>
            /\ loc[p].resp.code = 415
            /\ loc[p].calls = <<>>

\* the method each endpoint allows
AllowedMethod(kind) ==
    IF kind \in {"stats", "messages", "search", "exportJSON", "exportCSV"}
       THEN "GET" ELSE "POST"

\* p handles a request to one of the eight endpoints with another method
WrongMethod(p) ==
    /\ loc[p].kind \in {"stats", "messages", "search", "exportJSON",
                        "exportCSV", "createTopic", "createSubscription",
                        "publish", "replay"}
    /\ loc[p].method # AllowedMethod(loc[p].kind)

\* C21: a request to the stats, messages, search, export, create-topic,
\* create-subscription, publish or replay endpoint whose method is not the
\* allowed one is answered with 405; the handler made no broker call and
\* stored nothing, and none of its steps changes the store, the broadcast
\* queue, the viewer registry or the broker.
C21_WrongMethod ==
    /\ [](\A p \in Handlers :
            WrongMethod(p) =>
                /\ pc[p] = "respond"
                /\ loc[p].resp.code = 405
                /\ loc[p].calls = <<>>
                /\ loc[p].attempts = 0
                /\ loc[p].at = 0)
    /\ [][\A p \in Handlers :
            ((WrongMethod(p) \/ WrongMethod(p)') /\ pc'[p] # pc[p]) =>
                UNCHANGED <<messages, broadcast, wsClients, broker>>]_vars

\* C21 witness: a GET to the publish endpoint is answered while the store
\* holds a message
C21_Witness ==
    \E p \in Handlers :
        /\ loc[p].kind = "publish"
        /\ loc[p].method = "GET"
        /\ pc[p] = "respond"
        /\ messages # <<>>

\* the publish request of p is one the handler must refuse
InvalidPublish(p) ==
    /\ loc[p].kind = "publish"
    /\ loc[p].method = "POST"
    /\ \/ loc[p].body.TopicID = ""
       \/ loc[p].body.Data = EmptyStr
       \/ DataLen(loc[p].body.Data) > MaxDataLen

\* C22: a publish request with an empty topic ID, empty data or data longer
\* than 10 MB is answered with 400 without a publish attempt: the handler
\* goes straight to its response, nothing was appended for it and no event
\* was enqueued for it.
C22_InvalidPublishRejected ==
    \A p \in Handlers :
        InvalidPublish(p) =>
            /\ pc[p] = "respond"
            /\ loc[p].resp.code = 400
            /\ loc[p].attempts = 0
            /\ loc[p].at = 0
            /\ ~loc[p].sent
            /\ loc[p].msg = NoMsg

\* C22 witness: a decoded request with a known topic and data over the
\* limit has been refused
C22_Witness ==
    \E p \in Handlers :
        /\ InvalidPublish(p)
        /\ loc[p].body.decodes
        /\ loc[p].body.Data = LargeData
        /\ pc[p] = "respond"

\* ------------------------------------------------------------------------
\* Properties of the publisher
\* ------------------------------------------------------------------------
\* PublishToTopics has returned to p
PublishToTopicsReturned(p) ==
    /\ loc[p].kind = "publishToTopics"
    /\ pc[p] = "respond"

\* C23: PublishToTopics attempts every topic of the list in order, also
\* after a failure; it returns an error exactly when no publish succeeded
\* (so for the empty list), then without a map; otherwise the keys of the
\* returned map are exactly the topics with a successful publish.
C23_PublishToTopics ==
    \A p \in Callers :
        PublishToTopicsReturned(p) =>
            LET calls == loc[p].calls
                okTopics == {calls[i].topic :
                                i \in {j \in 1..Len(calls) : calls[j].ok}}
            IN /\ Len(calls) = Len(loc[p].topicIDs)
               /\ \A i \in 1..Len(calls) : calls[i].topic = loc[p].topicIDs[i]
               /\ loc[p].resp.err <=> (okTopics = {})
               /\ loc[p].resp.err => loc[p].resp.messageIDs = {}
               /\ ~loc[p].resp.err => MapKeys(loc[p].resp.messageIDs) = okTopics

\* C23 witness: a call whose first publish failed and whose second
\* succeeded has returned
C23_Witness ==
    \E p \in Callers :
        /\ PublishToTopicsReturned(p)
        /\ Len(loc[p].calls) = 2
        /\ ~loc[p].calls[1].ok
        /\ loc[p].calls[2].ok
        /\ ~loc[p].resp.err

\* ------------------------------------------------------------------------
\* Properties of the configuration
\* ------------------------------------------------------------------------
\* the number of items of a comma-separated list: the segments between
\* commas that hold a character other than a blank
NumItems(s) ==
    Cardinality({i \in 1..Len(s) :
                    /\ s[i] \notin {",", " "}
                    /\ \A j \in 1..(i - 1) :
                          s[j] \notin {",", " "} =>
                              \E k \in (j + 1)..(i - 1) : s[k] = ","})

\* the environment for which LoadFromEnv must fail
BadEnv(env) ==
    \/ env.PUBSUB_PROJECT = <<>>
    \/ env.PUBSUB_TOPIC = <<>>
    \/ env.PUBSUB_SUBSCRIPTION = <<>>
    \/ NumItems(env.PUBSUB_TOPIC) # NumItems(env.PUBSUB_SUBSCRIPTION)

\* C24: LoadFromEnv fails, with no configuration, when PUBSUB_PROJECT,
\* PUBSUB_TOPIC or PUBSUB_SUBSCRIPTION is unset or empty or when the two
\* lists have different numbers of items; otherwise it returns the
\* configuration of the environment, with PubSubPort 8085 and an empty
\* DashboardPort when these are unset.
C24_LoadFromEnv ==
    \A m \in Mains :
        loc[m].kind = "main" =>
            LET env == loc[m].env
                cfg == loc[m].cfg
            IN IF BadEnv(env)
                  THEN /\ pc[m] = "fatal"
                       /\ loc[m].err
                       /\ cfg = NoCfg
                  ELSE /\ pc[m] = "new_client" => ~loc[m].err
                       /\ cfg.ProjectID = env.PUBSUB_PROJECT
                       /\ Len(cfg.TopicIDs) = NumItems(env.PUBSUB_TOPIC)
                       /\ Len(cfg.SubscriptionIDs) =
                              NumItems(env.PUBSUB_SUBSCRIPTION)
                       /\ cfg.PubSubPort =
                              IF env.PUBSUB_PORT = <<>>
                                 THEN <<"8", "0", "8", "5">>
                                 ELSE env.PUBSUB_PORT
                       /\ cfg.DashboardPort = env.DASHBOARD_PORT

\* C24 witness: the three variables are set and the lists differ in length;
\* main has stopped
C24_Witness ==
    \E m \in Mains :
        /\ loc[m].kind = "main"
        /\ pc[m] = "fatal"
        /\ loc[m].env.PUBSUB_PROJECT # <<>>
        /\ NumItems(loc[m].env.PUBSUB_TOPIC) = 2
        /\ NumItems(loc[m].env.PUBSUB_SUBSCRIPTION) = 1

\* ------------------------------------------------------------------------
\* Properties of the store's history
\* ------------------------------------------------------------------------
\* C25: every step leaves the store as it is or replaces it by a suffix of
\* itself followed by one new entry: entries are only appended at the tail
\* and discarded from the head, the entries that remain keep their content
\* and order, and the step that stores a replay leaves the replayed entry
\* as it was if it remains.
C25_AppendOnly ==
    [][\/ messages' = messages
       \/ /\ Len(messages') >= 1
          /\ \E k \in 0..Len(messages) :
                SubSeq(messages', 1, Len(messages') - 1) =
                    SubSeq(messages, k + 1, Len(messages))
          /\ \A p \in Procs :
                (pc[p] = "am_store" /\ pc'[p] = "am_send") =>
                    /\ messages'[Len(messages')] = loc[p].info
                    /\ loc[p].kind = "replay" =>
                          \A i \in 1..Len(messages) :
                              messages[i].ID = loc[p].id =>
                                  \/ i <= Len(messages) + 1 - Len(messages')
                                  \/ messages'[i - (Len(messages) + 1
                                                    - Len(messages'))]
                                         = messages[i]]_vars

\* C25 witness: a replay has been stored as the last entry of a store that
\* has discarded entries and still holds an entry with the replayed ID
C25_Witness ==
    \E p \in Procs :
        /\ loc[p].kind = "replay"
        /\ loc[p].at > 0
        /\ Len(appended) > maxMessages
        /\ messages[Len(messages)] = loc[p].info
        /\ \E i \in 1..(Len(messages) - 1) : messages[i].ID = loc[p].id

\* ------------------------------------------------------------------------
\* Properties of the locks
\* ------------------------------------------------------------------------
\* goroutine g holds mu, in either mode
Holds(mu, g) == mu.w = g \/ g \in mu.r

\* C26: AddMessage does not serialise its broadcast event while it holds the
\* store's exclusive lock: a call that is about to marshal and send the
\* event has released the lock.
C26_MarshalOutsideLock ==
    \A p \in Procs : pc[p] = "am_send" => messagesMutex.w # p

\* C27: the viewer registry is never changed while a goroutine holds the
\* registry lock in shared mode: every change is made under the exclusive
\* lock or after the fan-out iteration has released the read lock.
C27_RegistryMutationExclusive ==
    [][wsClients' # wsClients => wsClientsMux.r = {}]_vars

\* the steps a goroutine that holds a lock can take next
HolderStep(p) == AddMessage(p) \/ SnapshotRUnlock(p)
WorkerStep == (\E c \in Conns : WorkerWrite(c)) \/ WorkerWriteDone \/ WorkerRUnlock

\* C28: no goroutine holds the store lock and the registry lock at once; a
\* goroutine that waits on the broadcast queue holds neither lock, and the
\* send of AddMessage under the store lock never waits; so every holder of
\* a lock can take its next step and no deadlock over the three structures
\* arises.
C28_NoNestedLocks ==
    /\ \A g \in Procs \cup {Worker} :
          ~(Holds(messagesMutex, g) /\ Holds(wsClientsMux, g))
    /\ worker.pc = "recv" =>
          /\ ~Holds(wsClientsMux, Worker)
          /\ ~Holds(messagesMutex, Worker)
    /\ \A p \in Procs :
          /\ pc[p] = "am_send" => ENABLED AddMessageSend(p)
          /\ Holds(messagesMutex, p) => ENABLED HolderStep(p)
    /\ Holds(wsClientsMux, Worker) => ENABLED WorkerStep
    /\ (messagesMutex.w = NoProc \/ messagesMutex.w \in Procs)
    /\ messagesMutex.r \subseteq Procs
    /\ wsClientsMux.r \subseteq {Worker}

\* C28 witness: the worker is inside a write under the registry's read lock
\* while an AddMessage call holds the store lock and is about to send
C28_Witness ==
    /\ worker.pc = "write"
    /\ Holds(wsClientsMux, Worker)
    /\ \E p \in Procs : pc[p] = "am_send" /\ messagesMutex.w = p

\* ------------------------------------------------------------------------
\* Properties of the order of the events
\* ------------------------------------------------------------------------
\* the events of seq follow the order of the appends, without repetition
InAppendOrder(seq) ==
    \A i \in 1..Len(seq) :
        /\ AppendIndex(seq[i]) > 0
        /\ \A j \in (i + 1)..Len(seq) :
              AppendIndex(seq[i]) < AppendIndex(seq[j])

\* C29: the events in the broadcast queue, the event the worker is fanning
\* out and the events written to each viewer follow the order in which
\* their messages were appended to the store, also with concurrent
\* AddMessage calls: what a viewer has received is a subsequence of the
\* append order, with no event twice.
C29_EventOrder ==
    /\ InAppendOrder(broadcast)
    /\ worker.pc \in {"iter", "write"} =>
          InAppendOrder(<<worker.message>> \o broadcast)
    /\ \A c \in Conns :
          /\ InAppendOrder(conn[c].got)
          /\ InAppendOrder(conn[c].got \o broadcast)

\* C29 witness: a viewer has received two events, of deliveries by two
\* subscriptions
C29_Witness ==
    \E c \in Conns :
        /\ Len(conn[c].got) >= 2
        /\ conn[c].got[1].message.ID # conn[c].got[2].message.ID

\* the events that have left AddMessage: queued, with the worker, or written
EventsOut ==
    {broadcast[i] : i \in 1..Len(broadcast)}
    \cup (IF worker.pc \in {"iter", "write"} THEN {worker.message} ELSE {})
    \cup UNION {{conn[c].got[i] : i \in 1..Len(conn[c].got)} : c \in Conns}

\* C30: a viewer is never notified of a message that is not stored yet:
\* every event that is queued, being fanned out or written to a viewer is of
\* a message already appended, and unless maxMessages later appends have
\* evicted it the message is in the store, where a snapshot finds it.
C30_StoredBeforeNotified ==
    \A ev \in EventsOut :
        /\ ev.type = "new_message"
        /\ AppendIndex(ev) > 0
        /\ AppendIndex(ev) > Len(appended) - maxMessages =>
              \E i \in 1..Len(messages) : messages[i] = ev.message

\* C30 witness: a viewer has been notified of a message that is in the
\* store, followed there by a later one
C30_Witness ==
    \E c \in Conns :
        /\ conn[c].got # <<>>
        /\ Len(messages) = 2
        /\ messages[1] = conn[c].got[1].message

\* ------------------------------------------------------------------------
\* Properties of the broadcast queue
\* ------------------------------------------------------------------------
\* C31: the broadcast queue never holds more than its capacity; it grows
\* only by the send of an AddMessage call, by one event, the event of the
\* entry that call has stored; and the send drops the event exactly when
\* the queue is full at that moment, the entry being stored all the same.
C31_QueueBounded ==
    /\ [](Len(broadcast) <= BroadcastCap)
    /\ [][/\ Len(broadcast') <= Len(broadcast) + 1
          /\ Len(broadcast') > Len(broadcast) =>
                \E p \in Procs : pc[p] = "am_send" /\ pc'[p] # "am_send"
          /\ \A p \in Procs :
                (pc[p] = "am_send" /\ pc'[p] # "am_send") =>
                    /\ loc[p].at > 0
                    /\ appended'[loc[p].at] = loc[p].info
                    /\ messages' = messages
                    /\ IF Len(broadcast) < BroadcastCap
                          THEN /\ loc'[p].sent
                               /\ broadcast' =
                                     Append(broadcast,
                                            [type |-> "new_message",
                                             message |-> loc[p].info])
                          ELSE /\ ~loc'[p].sent
                               /\ broadcast' = broadcast]_vars

\* C31 witness: a delivery has returned from AddMessage with its event
\* dropped; the queue is full and the entry is the last of the store
C31_Witness ==
    \E p \in Procs :
        /\ pc[p] = "ack"
        /\ ~loc[p].sent
        /\ Len(broadcast) = BroadcastCap
        /\ messages # <<>>
        /\ messages[Len(messages)] = loc[p].info

\* ------------------------------------------------------------------------
\* Progress of the broadcast worker
\* ------------------------------------------------------------------------
\* the IDs the broker assigns
EventIDs == {BrokerID(n) : n \in 1..(MaxPublish + 1)}

\* the event of the message with this ID is in the queue
Queued(id) == \E i \in 1..Len(broadcast) : broadcast[i].message.ID = id

\* the worker has taken the event of this ID from the queue
Dequeued(id) == worker.pc \in {"iter", "write"} /\ worker.message.message.ID = id

\* the write of the event of this ID to c has returned
WriteReturned(id, c) ==
    \/ \E i \in 1..Len(conn[c].got) : conn[c].got[i].message.ID = id
    \/ conn[c].failedOn # NoInfo /\ conn[c].failedOn.message.ID = id

C33_RegistryNotBlockedByWrite ==
    \A c \in Conns :
        worker.pc = "write" =>
            /\ conn[c].st = "upgraded" => ENABLED RegisterWebSocketClient(c)
            /\ conn[c].st = "leaving" => ENABLED UnregisterWebSocketClient(c)

\* ------------------------------------------------------------------------
\* Lookup among entries that share an ID
\* ------------------------------------------------------------------------
\* the entries of the store with the given ID, as indices
IndicesOf(id) == {i \in 1..Len(messages) : messages[i].ID = id}

\* C34: the lookup of replay and of GetMessageByID takes the first entry in
\* storage order that has the requested ID, whatever other entries share
\* it; replay publishes that entry's payload and attributes on that entry's
\* topic, and the entry it stores has that topic, payload and attributes.
C34_FirstMatch ==
    [][\A p \in Handlers :
          /\ (pc[p] \in {"rp_rlock", "id_rlock"} /\ pc'[p] # pc[p]) =>
                \A j \in IndicesOf(loc[p].id) :
                    /\ loc'[p].found
                    /\ loc'[p].orig.ID = loc[p].id
                    /\ \E i \in 1..j :
                          /\ loc'[p].orig = messages[i]
                          /\ \A k \in 1..(i - 1) : k \notin IndicesOf(loc[p].id)
          /\ (pc[p] = "id_runlock" /\ pc'[p] # pc[p] /\ loc[p].found) =>
                loc'[p].resp = [code |-> 200, body |-> loc[p].orig]
          /\ (loc[p].kind = "replay" /\ pc[p] = "pub_call"
                                     /\ pc'[p] = "am_lock") =>
                /\ loc'[p].topic = loc[p].orig.Topic
                /\ loc'[p].msg.Data = loc[p].orig.Data
                /\ loc'[p].msg.Attributes = loc[p].orig.Attributes
                /\ \A s \in Receivers :
                      broker'.pending[s] =
                         IF TopicOfSub(s) = loc[p].orig.Topic
                            THEN Append(broker.pending[s],
                                        [ID |-> loc'[p].msg.ID,
                                         Data |-> loc[p].orig.Data,
                                         Attributes |-> loc[p].orig.Attributes,
                                         PublishTime |-> broker.clock])
                            ELSE broker.pending[s]
          /\ (loc[p].kind = "replay" /\ pc[p] = "am_store"
                                     /\ pc'[p] = "am_send") =>
                /\ messages'[Len(messages')].Topic = loc[p].orig.Topic
                /\ messages'[Len(messages')].Data = loc[p].orig.Data
                /\ messages'[Len(messages')].Attributes = loc[p].orig.Attributes
                /\ messages'[Len(messages')].ID # loc[p].orig.ID]_vars

\* C34 witness: a replay has published the first of two entries that share
\* the requested ID and differ in their topic
C34_Witness ==
    \E p \in Handlers :
        /\ loc[p].kind = "replay"
        /\ pc[p] = "am_lock"
        /\ Len(messages) = 2
        /\ messages[1].ID = loc[p].id
        /\ messages[2].ID = loc[p].id
        /\ messages[1].Topic # messages[2].Topic
        /\ loc[p].orig = messages[1]
        /\ loc[p].topic = messages[1].Topic

\* C35: no two entries of the store share an ID: a message published through
\* the dashboard on a topic with an active subscription is recorded once.
C35_UniqueIDs ==
    \A i, j \in 1..Len(messages) : i # j => messages[i].ID # messages[j].ID

\* ------------------------------------------------------------------------
\* Frame of the read operations
\* ------------------------------------------------------------------------
ReadKinds == {"messages", "exportJSON", "exportCSV", "getMessages", "byID",
              "search", "stats", "health"}

\* this step is a step of a read operation of p
ReadStep(p) ==
    /\ pc'[p] # pc[p]
    /\ loc[p].kind \in ReadKinds \/ loc'[p].kind \in ReadKinds

\* C36: a step of a read operation (list messages, search, the exports,
\* GetMessages, GetMessageByID, GetStats, health) leaves the store, the
\* broadcast queue and the registry of viewers as they are: nothing is
\* stored and no event is enqueued.
C36_ReadsChangeNothing ==
    [][\A p \in Handlers :
          ReadStep(p) =>
              /\ messages' = messages
              /\ appended' = appended
              /\ broadcast' = broadcast
              /\ wsClients' = wsClients
              /\ conn' = conn]_vars

\* C36 witness: a lookup by ID has found its entry while an event is queued
\* and a viewer is registered
C36_Witness ==
    \E p \in Handlers :
        /\ loc[p].kind = "byID"
        /\ pc[p] = "respond"
        /\ loc[p].found
        /\ broadcast # <<>>
        /\ wsClients # {}

\* ------------------------------------------------------------------------
\* Writes and closes of a viewer's connection
\* ------------------------------------------------------------------------
\* the worker writes only to a viewer that is registered and not closed
WritesToOpenViewers ==
    \A c \in Conns :
        (worker.pc = "write" /\ worker.cur = c) =>
            /\ c \in wsClients
            /\ conn[c].closes = 0
            /\ conn[c].st \in {"reading", "leaving"}

\* C37: the worker writes no event to a viewer that has been unregistered or
\* closed, and the connection of a viewer is closed at most once.
C37_ClosedOnce ==
    /\ WritesToOpenViewers
    /\ \A c \in Conns : conn[c].closes <= 1

\* ------------------------------------------------------------------------
\* The configuration main runs with
\* ------------------------------------------------------------------------
\* C38: every configuration that LoadFromEnv returns without an error
\* passes Config.Validate: the project is set and there is at least one
\* topic and one subscription, equal in number.
C38_LoadedConfigValid ==
    \A m \in Mains :
        (loc[m].kind = "main" /\ ~loc[m].err) => Validate(loc[m].cfg)

\* ------------------------------------------------------------------------
\* Acknowledgement of deliveries
\* ------------------------------------------------------------------------
\* the callback of s is between the handler's return and msg.Ack()
HandlerReturned(s) ==
    /\ pc[s] = "ack"
    /\ loc[s].kind = "deliver"
    /\ loc[s].at > 0
    /\ appended[loc[s].at] = MessageInfoOf(loc[s].msg, HandlerTopic(s))

\* C39: a delivered message is acknowledged once, by the step that follows
\* the handler's return, and never before the handler has recorded it: the
\* acknowledged messages of a subscription are distinct and recorded, an
\* acknowledgement is made only by a callback whose handler has returned,
\* and a callback ends only by acknowledging its message.
C39_AckAfterHandler ==
    /\ [](\A s \in Receivers :
            /\ \A i, j \in 1..Len(broker.acked[s]) :
                  i # j => broker.acked[s][i] # broker.acked[s][j]
            /\ \A i \in 1..Len(broker.acked[s]) :
                  \E k \in 1..Len(appended) :
                      /\ appended[k].ID = broker.acked[s][i]
                      /\ appended[k].Topic = HandlerTopic(s)
            /\ (pc[s] # "idle" /\ loc[s].kind = "deliver") =>
                  \A i \in 1..Len(broker.acked[s]) :
                      broker.acked[s][i] # loc[s].msg.ID)
    /\ [][\A s \in Receivers :
            /\ broker'.acked[s] # broker.acked[s] =>
                  /\ HandlerReturned(s)
                  /\ broker'.acked[s] = Append(broker.acked[s], loc[s].msg.ID)
                  /\ pc'[s] = "idle"
            /\ (pc[s] # "idle" /\ pc'[s] = "idle") =>
                  broker'.acked[s] = Append(broker.acked[s], loc[s].msg.ID)
            /\ (pc[s] = "idle" /\ pc'[s] # "idle") =>
                  /\ loc'[s].msg = Head(broker.pending[s])
                  /\ pc'[s] = "am_lock"]_vars

\* C39 witness: a subscription has acknowledged two messages, each recorded
\* in the store before
C39_Witness ==
    \E s \in Receivers :
        /\ Len(broker.acked[s]) = 2
        /\ pc[s] = "idle"
        /\ Len(appended) >= 2

====
